---- MODULE Spec2Model ----
(***************************************************************************)
(* Verification model of the maze raycaster core: collision/movement       *)
(* (player.rs), agent navigation (sprite.rs) and the DDA caster            *)
(* (caster.rs).                                                            *)
(*                                                                         *)
(* World coordinates are f32 in the program.  The model keeps them on the  *)
(* integer lattice: every position is an integer number of world units,    *)
(* and a cell is block_size world units wide.  Ray directions are the      *)
(* (cos, sin) pairs f32 arithmetic produces, kept as exact rationals.      *)
(* Maze cells are one-character strings; cell (i, j) of the program        *)
(* (0-based column i, row j) is maze[j + 1][i + 1] here.                   *)
(***************************************************************************)
EXTENDS Integers, Sequences, FiniteSets, TLC

VARIABLES maze, block_size, player, npcs, touched, hit, last,
          player_a, player_escaped, screen, coins, total_coins_collected, discovered,
          depth_buffer, drawn, image, sampled,
          menu, audio, device, phase

\* the state of the game besides the viewer's position and the agents
game_vars == <<player_a, player_escaped, screen, coins, total_coins_collected, discovered>>

\* what the renderer, the minimap and the texture samplers produce
view_vars == <<depth_buffer, drawn, image, sampled>>

\* the menu loop, the audio manager, the audio device it drives and where main stands
app_vars == <<menu, audio, device, phase>>

vars == <<maze, block_size, player, npcs, touched, hit, last, game_vars, view_vars,
          app_vars>>

(***************************************************************************)
(* Bounds of the model                                                     *)
(***************************************************************************)
\* largest per-axis displacement (world units) one process_events call requests
MaxMove == 2

\* cell sizes passed as block_size
BlockSizes == {2, 4}

\* agent speeds (world units per update) given to NPC::new
NpcSpeeds == {1}

(***************************************************************************)
(* Mazes: Vec<Vec<char>>, rows may differ in length                        *)
(***************************************************************************)
\* 5x5 room with a solid border, an open 3x3 interior and one agent spawn
RoomMaze ==
  << <<"+", "-", "-", "-", "+">>,
     <<"|", " ", " ", " ", "|">>,
     <<"|", " ", " ", "R", "|">>,
     <<"|", " ", " ", " ", "|">>,
     <<"+", "-", "-", "-", "+">> >>

\* a pillar in the interior: walls between cells and L-shaped / convex corners
PillarMaze ==
  << <<"+", "-", "-", "-", "+">>,
     <<"|", " ", " ", "R", "|">>,
     <<"|", " ", "+", " ", "|">>,
     <<"+", "-", "-", "-", "+">> >>

\* a dividing wall: the two sides are not connected; two agent spawns
SplitMaze ==
  << <<"+", "-", "-", "-", "+">>,
     <<"|", " ", "|", "R", "|">>,
     <<"|", "R", "|", " ", "|">>,
     <<"+", "-", "-", "-", "+">> >>

\* jagged rows, an empty row and a coin cell
JaggedMaze ==
  << <<" ", " ", " ">>,
     <<" ", "C">>,
     << >>,
     <<"R", " ", " ", " ">> >>

\* no blocking cell at all
OpenMaze ==
  << <<" ", " ", " ">>,
     <<" ", "R", " ">>,
     <<" ", " ", " ">> >>

EmptyMaze == << >>

\* a corridor with two agents in the viewer's region
DuoMaze ==
  << <<"+", "-", "-", "-", "+">>,
     <<"|", " ", "R", "R", "|">>,
     <<"+", "-", "-", "-", "+">> >>

\* levels the game is played on, each with the block_size it is run with
LevelSetups ==
  { <<RoomMaze, 4>>, <<PillarMaze, 4>>, <<SplitMaze, 4>>, <<SplitMaze, 2>>,
    <<DuoMaze, 2>> }

\* grids the pure functions are exercised on
FnMazes == {RoomMaze, PillarMaze, SplitMaze, JaggedMaze, OpenMaze, EmptyMaze}

(***************************************************************************)
(* player.rs                                                               *)
(***************************************************************************)
can_move_to_NoSpawn(m, x, y, bs) ==
  IF Len(m) = 0 THEN TRUE
  ELSE IF x < 0 \/ y < 0 THEN FALSE
  ELSE LET i == x \div bs
           j == y \div bs
       IN IF j >= Len(m) THEN FALSE
          ELSE IF Len(m[j + 1]) = 0 \/ i >= Len(m[j + 1]) THEN FALSE
          ELSE m[j + 1][i + 1] = " "

\* can_move_to(maze, x, y, block_size)
can_move_to(m, x, y, bs) ==
  IF Len(m) = 0 THEN TRUE
  ELSE IF x < 0 \/ y < 0 THEN FALSE
  ELSE LET i == x \div bs
           j == y \div bs
       IN IF j >= Len(m) THEN FALSE
          ELSE IF Len(m[j + 1]) = 0 \/ i >= Len(m[j + 1]) THEN FALSE
          ELSE m[j + 1][i + 1] = " " \/ m[j + 1][i + 1] = "R"

\* the slide of the specification text: each axis tested against the original position
process_events_IndependentAxes(m, pos, dx, dy, bs) ==
  IF dx = 0 /\ dy = 0 THEN pos
  ELSE LET new_x == pos.x + dx
           new_y == pos.y + dy
       IN IF can_move_to(m, new_x, new_y, bs) THEN [x |-> new_x, y |-> new_y]
          ELSE [x |-> IF can_move_to(m, new_x, pos.y, bs) THEN new_x ELSE pos.x,
                y |-> IF can_move_to(m, pos.x, new_y, bs) THEN new_y ELSE pos.y]

\* a slide that tries the Y axis before the X axis
process_events_YThenX(m, pos, dx, dy, bs) ==
  IF dx = 0 /\ dy = 0 THEN pos
  ELSE LET new_x == pos.x + dx
           new_y == pos.y + dy
       IN IF can_move_to(m, new_x, new_y, bs) THEN [x |-> new_x, y |-> new_y]
          ELSE LET y1 == IF can_move_to(m, pos.x, new_y, bs) THEN new_y ELSE pos.y
                   x1 == IF can_move_to(m, new_x, y1, bs) THEN new_x ELSE pos.x
               IN [x |-> x1, y |-> y1]

\* process_events: the movement part (dx, dy is the displacement the keys request)
process_events(m, pos, dx, dy, bs) ==
  IF dx = 0 /\ dy = 0 THEN pos
  ELSE LET new_x == pos.x + dx
           new_y == pos.y + dy
       IN IF can_move_to(m, new_x, new_y, bs) THEN [x |-> new_x, y |-> new_y]
          ELSE LET x1 == IF can_move_to(m, new_x, pos.y, bs) THEN new_x ELSE pos.x
                   y1 == IF can_move_to(m, x1, new_y, bs) THEN new_y ELSE pos.y
               IN [x |-> x1, y |-> y1]

(***************************************************************************)
(* sprite.rs: grid helpers                                                 *)
(***************************************************************************)
\* cell_indices_from_pos: floor(pos / block_size) on each axis, as <<i, j>>
cell_indices_from_pos(pos_x, pos_y, bs) == <<pos_x \div bs, pos_y \div bs>>

\* in_bounds(maze, i, j)
in_bounds(m, i, j) ==
  IF j < 0 THEN FALSE
  ELSE IF j >= Len(m) THEN FALSE
  ELSE IF i < 0 \/ i >= Len(m[j + 1]) THEN FALSE
  ELSE TRUE

\* is_walkable_cell(maze, i, j)
is_walkable_cell(m, i, j) ==
  IF ~in_bounds(m, i, j) THEN FALSE
  ELSE m[j + 1][i + 1] = " " \/ m[j + 1][i + 1] = "R"

Abs(n) == IF n < 0 THEN -n ELSE n

(***************************************************************************)
(* sprite.rs: line_of_sight (Bresenham over grid cells)                    *)
(***************************************************************************)
\* the loop of line_of_sight from cell (x0, y0) with error term err
RECURSIVE los_loop(_, _, _, _, _, _, _, _, _, _)
los_loop(m, x0, y0, x1, y1, dx, sx, dy, sy, err) ==
  IF ~is_walkable_cell(m, x0, y0) THEN FALSE
  ELSE IF x0 = x1 /\ y0 = y1 THEN TRUE
  ELSE LET e2   == 2 * err
           errx == IF e2 >= dy THEN err + dy ELSE err
           nx0  == IF e2 >= dy THEN x0 + sx ELSE x0
           erry == IF e2 <= dx THEN errx + dx ELSE errx
           ny0  == IF e2 <= dx THEN y0 + sy ELSE y0
       IN los_loop(m, nx0, ny0, x1, y1, dx, sx, dy, sy, erry)

\* the same loop leaving before the goal cell is tested
RECURSIVE los_loop_SkipGoal(_, _, _, _, _, _, _, _, _, _)
los_loop_SkipGoal(m, x0, y0, x1, y1, dx, sx, dy, sy, err) ==
  IF x0 = x1 /\ y0 = y1 THEN TRUE
  ELSE IF ~is_walkable_cell(m, x0, y0) THEN FALSE
  ELSE LET e2   == 2 * err
           errx == IF e2 >= dy THEN err + dy ELSE err
           nx0  == IF e2 >= dy THEN x0 + sx ELSE x0
           erry == IF e2 <= dx THEN errx + dx ELSE errx
           ny0  == IF e2 <= dx THEN y0 + sy ELSE y0
       IN los_loop_SkipGoal(m, nx0, ny0, x1, y1, dx, sx, dy, sy, erry)

\* the cells the traversal of line_of_sight steps on when no cell stops it
RECURSIVE los_cells(_, _, _, _, _, _, _, _, _)
los_cells(x0, y0, x1, y1, dx, sx, dy, sy, err) ==
  IF x0 = x1 /\ y0 = y1 THEN << <<x0, y0>> >>
  ELSE LET e2   == 2 * err
           errx == IF e2 >= dy THEN err + dy ELSE err
           nx0  == IF e2 >= dy THEN x0 + sx ELSE x0
           erry == IF e2 <= dx THEN errx + dx ELSE errx
           ny0  == IF e2 <= dx THEN y0 + sy ELSE y0
       IN << <<x0, y0>> >> \o los_cells(nx0, ny0, x1, y1, dx, sx, dy, sy, erry)

\* cells visited between two world positions
bresenham_cells(from_x, from_y, to_x, to_y, bs) ==
  LET c0 == cell_indices_from_pos(from_x, from_y, bs)
      c1 == cell_indices_from_pos(to_x, to_y, bs)
      dx == Abs(c1[1] - c0[1])
      sx == IF c0[1] < c1[1] THEN 1 ELSE -1
      dy == -Abs(c1[2] - c0[2])
      sy == IF c0[2] < c1[2] THEN 1 ELSE -1
  IN los_cells(c0[1], c0[2], c1[1], c1[2], dx, sx, dy, sy, dx + dy)

line_of_sight_SkipGoal(m, from_x, from_y, to_x, to_y, bs) ==
  LET c0 == cell_indices_from_pos(from_x, from_y, bs)
      c1 == cell_indices_from_pos(to_x, to_y, bs)
      dx == Abs(c1[1] - c0[1])
      sx == IF c0[1] < c1[1] THEN 1 ELSE -1
      dy == -Abs(c1[2] - c0[2])
      sy == IF c0[2] < c1[2] THEN 1 ELSE -1
  IN los_loop_SkipGoal(m, c0[1], c0[2], c1[1], c1[2], dx, sx, dy, sy, dx + dy)

\* line_of_sight(maze, from_x, from_y, to_x, to_y, block_size)
line_of_sight(m, from_x, from_y, to_x, to_y, bs) ==
  LET c0 == cell_indices_from_pos(from_x, from_y, bs)
      c1 == cell_indices_from_pos(to_x, to_y, bs)
      dx == Abs(c1[1] - c0[1])
      sx == IF c0[1] < c1[1] THEN 1 ELSE -1
      dy == -Abs(c1[2] - c0[2])
      sy == IF c0[2] < c1[2] THEN 1 ELSE -1
  IN los_loop(m, c0[1], c0[2], c1[1], c1[2], dx, sx, dy, sy, dx + dy)

(***************************************************************************)
(* sprite.rs: next_step_bfs                                                *)
(***************************************************************************)
\* dirs = [(1,0),(-1,0),(0,1),(0,-1)]
dirs == << <<1, 0>>, <<-1, 0>>, <<0, 1>>, <<0, -1>> >>

NoParent == <<-1, -1>>

\* parent[c.1][c.0]; the table starts filled with (-1, -1)
parent_of(parent, c) == IF c \in DOMAIN parent THEN parent[c] ELSE NoParent

\* the for loop without the is_walkable_cell test of the neighbour
RECURSIVE bfs_expand_ThroughWalls(_, _, _, _, _, _)
bfs_expand_ThroughWalls(m, c, q, visited, parent, k) ==
  IF k > Len(dirs) THEN [q |-> q, visited |-> visited, parent |-> parent]
  ELSE LET ni == c[1] + dirs[k][1]
           nj == c[2] + dirs[k][2]
       IN IF ~in_bounds(m, ni, nj)
          THEN bfs_expand_ThroughWalls(m, c, q, visited, parent, k + 1)
          ELSE IF <<ni, nj>> \in visited
          THEN bfs_expand_ThroughWalls(m, c, q, visited, parent, k + 1)
          ELSE bfs_expand_ThroughWalls(m, c, Append(q, <<ni, nj>>),
                                       visited \cup {<<ni, nj>>},
                                       (<<ni, nj>> :> c) @@ parent, k + 1)

\* the for loop over dirs for the popped cell c, from direction k on
RECURSIVE bfs_expand(_, _, _, _, _, _)
bfs_expand(m, c, q, visited, parent, k) ==
  IF k > Len(dirs) THEN [q |-> q, visited |-> visited, parent |-> parent]
  ELSE LET ni == c[1] + dirs[k][1]
           nj == c[2] + dirs[k][2]
       IN IF ~in_bounds(m, ni, nj) THEN bfs_expand(m, c, q, visited, parent, k + 1)
          ELSE IF <<ni, nj>> \in visited THEN bfs_expand(m, c, q, visited, parent, k + 1)
          ELSE IF ~is_walkable_cell(m, ni, nj) THEN bfs_expand(m, c, q, visited, parent, k + 1)
          ELSE bfs_expand(m, c, Append(q, <<ni, nj>>), visited \cup {<<ni, nj>>},
                          (<<ni, nj>> :> c) @@ parent, k + 1)

\* the while loop popping the queue until it is empty or the goal g is popped
RECURSIVE bfs_loop(_, _, _, _, _)
bfs_loop(m, q, visited, parent, g) ==
  IF q = << >> THEN [visited |-> visited, parent |-> parent]
  ELSE LET c == Head(q)
       IN IF c = g THEN [visited |-> visited, parent |-> parent]
          ELSE LET r == bfs_expand(m, c, Tail(q), visited, parent, 1)
               IN bfs_loop(m, r.q, r.visited, r.parent, g)

\* walk the parent links back from cur until the cell whose parent is the start s
RECURSIVE bfs_first_step(_, _, _)
bfs_first_step(parent, cur, s) ==
  LET prev == parent_of(parent, cur)
  IN IF prev # NoParent /\ prev # s THEN bfs_first_step(parent, prev, s) ELSE cur

None == [some |-> FALSE]
Some(cx, cy) == [some |-> TRUE, x |-> cx, y |-> cy]

\* reconstruction that returns the goal cell instead of the first step
next_step_bfs_GoalCell(m, from_x, from_y, to_x, to_y, bs) ==
  LET s == cell_indices_from_pos(from_x, from_y, bs)
      g == cell_indices_from_pos(to_x, to_y, bs)
  IN IF s = g THEN None
     ELSE IF ~in_bounds(m, s[1], s[2]) \/ ~in_bounds(m, g[1], g[2]) THEN None
     ELSE IF ~is_walkable_cell(m, g[1], g[2]) THEN None
     ELSE LET r == bfs_loop(m, <<s>>, {s}, << >>, g)
          IN IF g \notin r.visited THEN None
             ELSE Some(g[1] * bs + bs \div 2, g[2] * bs + bs \div 2)

\* next_step_bfs(maze, from_x, from_y, to_x, to_y, block_size) -> Option<(f32, f32)>
next_step_bfs(m, from_x, from_y, to_x, to_y, bs) ==
  LET s == cell_indices_from_pos(from_x, from_y, bs)
      g == cell_indices_from_pos(to_x, to_y, bs)
  IN IF s = g THEN None
     ELSE IF ~in_bounds(m, s[1], s[2]) \/ ~in_bounds(m, g[1], g[2]) THEN None
     ELSE IF ~is_walkable_cell(m, g[1], g[2]) THEN None
     ELSE LET r == bfs_loop(m, <<s>>, {s}, << >>, g)
          IN IF g \notin r.visited THEN None
             ELSE LET cur == bfs_first_step(r.parent, g, s)
                  IN Some(cur[1] * bs + bs \div 2, cur[2] * bs + bs \div 2)

(***************************************************************************)
(* sprite.rs: NPC, load_npcs_from_maze, update_npcs                        *)
(***************************************************************************)
\* NPC::new(x, y, speed)
NPC(px, py, sp) == [x |-> px, y |-> py, speed |-> sp]

\* the inner loop of load_npcs_from_maze over the cells of row ry, from column rx on
RECURSIVE load_npcs_row(_, _, _, _, _)
load_npcs_row(m, ry, rx, bs, sp) ==
  IF rx >= Len(m[ry + 1]) THEN << >>
  ELSE (IF m[ry + 1][rx + 1] = "R"
        THEN << NPC(rx * bs + bs \div 2, ry * bs + bs \div 2, sp) >>
        ELSE << >>) \o load_npcs_row(m, ry, rx + 1, bs, sp)

\* the outer loop of load_npcs_from_maze over the rows, from row ry on
RECURSIVE load_npcs_rows(_, _, _, _)
load_npcs_rows(m, ry, bs, sp) ==
  IF ry >= Len(m) THEN << >>
  ELSE load_npcs_row(m, ry, 0, bs, sp) \o load_npcs_rows(m, ry + 1, bs, sp)

\* load_npcs_from_maze(maze, block_size); sp is the speed handed to NPC::new
load_npcs_from_maze(m, bs, sp) == load_npcs_rows(m, 0, bs, sp)

\* one component of (d / len) * speed with len = sqrt(len2), rounded to the
\* nearest lattice value (halves away from zero)
steer(d, len2, sp) ==
  IF d = 0 \/ len2 = 0 THEN 0
  ELSE LET k == CHOOSE n \in 0..sp :
                  /\ (n = 0 \/ (2 * n - 1) * (2 * n - 1) * len2 <= 4 * d * d * sp * sp)
                  /\ 4 * d * d * sp * sp < (2 * n + 1) * (2 * n + 1) * len2
       IN IF d < 0 THEN -k ELSE k

\* full move to (nx, ny) if allowed, else the sliding fallback: X then Y
npc_move(m, npc, nx, ny, bs) ==
  IF can_move_to(m, nx, ny, bs) THEN [npc EXCEPT !.x = nx, !.y = ny]
  ELSE LET x1 == IF can_move_to(m, nx, npc.y, bs) THEN nx ELSE npc.x
           y1 == IF can_move_to(m, x1, ny, bs) THEN ny ELSE npc.y
       IN [npc EXCEPT !.x = x1, !.y = y1]

\* len <= collision_dist, with collision_dist = block_size * 0.25
npc_touches(npc, p, bs) ==
  LET dir_x == p.x - npc.x
      dir_y == p.y - npc.y
  IN 16 * (dir_x * dir_x + dir_y * dir_y) <= bs * bs

\* an agent that heads straight for the viewer when no path is found
npc_target_ChargeWithoutPath(m, npc, p, bs) ==
  LET dir_x == p.x - npc.x
      dir_y == p.y - npc.y
      len2  == dir_x * dir_x + dir_y * dir_y
  IN IF len2 > 1
     THEN <<npc.x + steer(dir_x, len2, npc.speed), npc.y + steer(dir_y, len2, npc.speed)>>
     ELSE <<npc.x, npc.y>>

\* the destination (nx, ny) an agent asks for in one update: straight at the viewer
\* with line of sight, at the centre of the next cell of the BFS path without; its own
\* position when it does not try to move (len <= 1.0, or no path)
npc_target(m, npc, p, bs) ==
  LET dir_x == p.x - npc.x
      dir_y == p.y - npc.y
      len2  == dir_x * dir_x + dir_y * dir_y
  IN IF len2 > 1
     THEN IF line_of_sight(m, npc.x, npc.y, p.x, p.y, bs)
          THEN <<npc.x + steer(dir_x, len2, npc.speed),
                 npc.y + steer(dir_y, len2, npc.speed)>>
          ELSE LET t == next_step_bfs(m, npc.x, npc.y, p.x, p.y, bs)
               IN IF t.some
                  THEN LET dx2 == t.x - npc.x
                           dy2 == t.y - npc.y
                           l2  == dx2 * dx2 + dy2 * dy2
                       IN <<npc.x + steer(dx2, l2, npc.speed),
                            npc.y + steer(dy2, l2, npc.speed)>>
                  ELSE <<npc.x, npc.y>>
     ELSE <<npc.x, npc.y>>

\* an agent that waits where it is until it has line of sight
npc_step_WaitsForSight(m, npc, p, bs) ==
  LET t == npc_target(m, npc, p, bs)
  IN IF t = <<npc.x, npc.y>> \/ ~line_of_sight(m, npc.x, npc.y, p.x, p.y, bs) THEN npc
     ELSE npc_move(m, npc, t[1], t[2], bs)

\* the body of the for loop of update_npcs after the touch test: the agent's move
npc_step(m, npc, p, bs) ==
  LET t == npc_target(m, npc, p, bs)
  IN IF t = <<npc.x, npc.y>> THEN npc ELSE npc_move(m, npc, t[1], t[2], bs)

\* a loop in which the agents after one that touches the viewer no longer move
RECURSIVE update_npcs_loop_HaltAfterTouch(_, _, _, _, _, _)
update_npcs_loop_HaltAfterTouch(m, ns, p, bs, k, t) ==
  IF k > Len(ns) THEN [npcs |-> ns, touched |-> t]
  ELSE update_npcs_loop_HaltAfterTouch(
         m, [ns EXCEPT ![k] = IF t THEN ns[k] ELSE npc_step(m, ns[k], p, bs)], p, bs,
         k + 1, t \/ npc_touches(ns[k], p, bs))

\* the for loop of update_npcs from agent k on; t is touched so far
RECURSIVE update_npcs_loop(_, _, _, _, _, _)
update_npcs_loop(m, ns, p, bs, k, t) ==
  IF k > Len(ns) THEN [npcs |-> ns, touched |-> t]
  ELSE update_npcs_loop(m, [ns EXCEPT ![k] = npc_step(m, ns[k], p, bs)], p, bs, k + 1,
                        t \/ npc_touches(ns[k], p, bs))

\* the same loop leaving at the first agent that touches the viewer
RECURSIVE update_npcs_loop_Break(_, _, _, _, _, _)
update_npcs_loop_Break(m, ns, p, bs, k, t) ==
  IF k > Len(ns) THEN [npcs |-> ns, touched |-> t]
  ELSE IF npc_touches(ns[k], p, bs) THEN [npcs |-> ns, touched |-> TRUE]
  ELSE update_npcs_loop_Break(m, [ns EXCEPT ![k] = npc_step(m, ns[k], p, bs)], p, bs,
                              k + 1, t)

update_npcs_BreakOnTouch(ns, p, m, bs) == update_npcs_loop_Break(m, ns, p, bs, 1, FALSE)

\* update_npcs(npcs, player, maze, block_size) -> touched, with the agents it leaves
update_npcs(ns, p, m, bs) == update_npcs_loop(m, ns, p, bs, 1, FALSE)

(***************************************************************************)
(* caster.rs: cast_ray (DDA)                                               *)
(*                                                                         *)
(* An angle is given by the pair (cos a, sin a) that f32 yields, each an   *)
(* exact rational <<numerator, denominator>> with denominator > 0.         *)
(* f32 has no value equal to pi/2 or pi, so the cosine of FRAC_PI_2        *)
(* (-4.371139e-8) and the sine of PI (-8.742278e-8) are tiny, not zero;    *)
(* only sin 0 is exactly zero.                                             *)
(***************************************************************************)
Angle(c, s) == [cos |-> c, sin |-> s]

AngleZero     == Angle(<<1, 1>>, <<0, 1>>)                  \* a = 0
AngleHalfPi   == Angle(<<-1, 22877332>>, <<1, 1>>)          \* a = FRAC_PI_2
AngleMinusHalfPi == Angle(<<-1, 22877332>>, <<-1, 1>>)      \* a = -FRAC_PI_2
AnglePi       == Angle(<<-1, 1>>, <<-1, 11438666>>)         \* a = PI

\* oblique directions with rational cosine and sine
ObliqueAngles ==
  { Angle(<<c[1], 5>>, <<c[2], 5>>) :
      c \in { <<3, 4>>, <<4, 3>>, <<-3, 4>>, <<-4, 3>>,
              <<3, -4>>, <<4, -3>>, <<-3, -4>>, <<-4, -3>> } }

Angles == {AngleZero, AngleHalfPi, AngleMinusHalfPi, AnglePi} \cup ObliqueAngles

\* max_steps
max_steps == 2000

\* side_dist_x < side_dist_y, where side_dist_x = (wx / block_size) * delta_dist_x,
\* side_dist_y = (wy / block_size) * delta_dist_y and delta_dist is 1 / |ray_dir|, or
\* INFINITY when ray_dir is 0
side_dist_less(a, wx, wy) ==
  IF a.cos[1] = 0 THEN FALSE
  ELSE IF a.sin[1] = 0 THEN TRUE
  ELSE wx * a.cos[2] * Abs(a.sin[1]) < wy * a.sin[2] * Abs(a.cos[1])

\* a caster that lets agent-spawn cells stop the ray
blocks_ray_SpawnBlocks(cell) == cell # " "

\* the symbol stops a ray
blocks_ray(cell) == cell # " " /\ cell # "R"

\* one iteration of the DDA for loop.  st holds the loop's variables: the ray is in cell
\* (map_x, map_y); wx and wy are side_dist_x and side_dist_y in world units along each
\* axis; done is set by a break, hit by the break on a blocking cell.  cells lists the
\* cells entered so far, steps counts the iterations run.
dda_step(m, a, bs, st) ==
  LET stepx == side_dist_less(a, st.wx, st.wy)
      wx1   == IF stepx THEN st.wx + bs ELSE st.wx
      wy1   == IF stepx THEN st.wy ELSE st.wy + bs
      mx1   == IF stepx THEN st.map_x + (IF a.cos[1] < 0 THEN -1 ELSE 1) ELSE st.map_x
      my1   == IF stepx THEN st.map_y ELSE st.map_y + (IF a.sin[1] < 0 THEN -1 ELSE 1)
      out(d, h) == [hit |-> h, done |-> d, map_x |-> mx1, map_y |-> my1, wx |-> wx1,
                    wy |-> wy1, side |-> IF stepx THEN 0 ELSE 1,
                    cells |-> Append(st.cells, <<mx1, my1>>), steps |-> st.steps + 1]
  IN IF my1 < 0 \/ mx1 < 0 THEN out(TRUE, FALSE)
     ELSE IF my1 < Len(m) /\ mx1 < Len(m[my1 + 1])
          THEN IF blocks_ray(m[my1 + 1][mx1 + 1]) THEN out(TRUE, TRUE)
               ELSE out(FALSE, FALSE)
          ELSE out(TRUE, FALSE)

\* the DDA for loop: up to n more iterations from st, none after a break
RECURSIVE dda_loop(_, _, _, _, _)
dda_loop(m, a, bs, st, n) ==
  IF st.done \/ n = 0 THEN st
  ELSE IF n = 1 THEN dda_step(m, a, bs, st)
  ELSE dda_loop(m, a, bs, dda_loop(m, a, bs, st, n \div 2), n - n \div 2)

\* the set-up of cast_ray followed by the DDA loop
dda(m, pos, a, bs) ==
  LET map_x == pos.x \div bs
      map_y == pos.y \div bs
      wx0   == IF a.cos[1] < 0 THEN pos.x - map_x * bs ELSE (map_x + 1) * bs - pos.x
      wy0   == IF a.sin[1] < 0 THEN pos.y - map_y * bs ELSE (map_y + 1) * bs - pos.y
  IN dda_loop(m, a, bs,
              [hit |-> FALSE, done |-> FALSE, map_x |-> map_x, map_y |-> map_y,
               wx |-> wx0, wy |-> wy0, side |-> 0, cells |-> << >>, steps |-> 0],
              max_steps)

\* the fallback Intersect of cast_ray
Sentinel(pos) ==
  [distance |-> <<2000, 1>>, impact |-> " ", hit_x |-> <<pos.x, 1>>,
   hit_y |-> <<pos.y, 1>>, side |-> 0]

\* a caster that reports a ray leaving the grid as a wall at the grid's edge
cast_ray_EdgeIsWall(m, pos, a, bs) ==
  LET r == dda(m, pos, a, bs)
      d == IF r.side = 0 THEN <<(r.wx - bs) * a.cos[2], Abs(a.cos[1])>>
           ELSE <<(r.wy - bs) * a.sin[2], Abs(a.sin[1])>>
  IN [distance |-> d, impact |-> IF r.hit THEN m[r.map_y + 1][r.map_x + 1] ELSE "+",
      hit_x |-> <<pos.x * d[2] * a.cos[2] + d[1] * a.cos[1], d[2] * a.cos[2]>>,
      hit_y |-> <<pos.y * d[2] * a.sin[2] + d[1] * a.sin[1], d[2] * a.sin[2]>>,
      side |-> r.side]

\* a caster that takes the accumulator after its increment as the distance
cast_ray_PostIncrement(m, pos, a, bs) ==
  LET r == dda(m, pos, a, bs)
  IN IF r.hit
     THEN LET d == IF r.side = 0 THEN <<r.wx * a.cos[2], Abs(a.cos[1])>>
                   ELSE <<r.wy * a.sin[2], Abs(a.sin[1])>>
          IN [distance |-> d, impact |-> m[r.map_y + 1][r.map_x + 1],
              hit_x |-> <<pos.x * d[2] * a.cos[2] + d[1] * a.cos[1], d[2] * a.cos[2]>>,
              hit_y |-> <<pos.y * d[2] * a.sin[2] + d[1] * a.sin[1], d[2] * a.sin[2]>>,
              side |-> r.side]
     ELSE Sentinel(pos)

\* cast_ray(framebuffer, maze, player, a, block_size, draw_line) -> Intersect
\* distance, hit_x and hit_y are rationals <<numerator, denominator>>
cast_ray(m, pos, a, bs) ==
  LET r == dda(m, pos, a, bs)
  IN IF r.hit
     THEN LET d == IF r.side = 0 THEN <<(r.wx - bs) * a.cos[2], Abs(a.cos[1])>>
                   ELSE <<(r.wy - bs) * a.sin[2], Abs(a.sin[1])>>
          IN [distance |-> d, impact |-> m[r.map_y + 1][r.map_x + 1],
              hit_x |-> <<pos.x * d[2] * a.cos[2] + d[1] * a.cos[1], d[2] * a.cos[2]>>,
              hit_y |-> <<pos.y * d[2] * a.sin[2] + d[1] * a.sin[1], d[2] * a.sin[2]>>,
              side |-> r.side]
     ELSE Sentinel(pos)

(***************************************************************************)
(* renderer.rs: render_world, the sprite pass                              *)
(*                                                                         *)
(* The framebuffer is FbWidth x FbHeight pixels.  The wall pass leaves one *)
(* positive depth per ray in depth_buffer; the model takes the depths, and *)
(* each sprite's distance and bearing (dist and rel, computed with sqrt    *)
(* and atan2 in the program), as values the program can produce.  rel is   *)
(* counted in steps of fov / (2 * BearingSteps), so that a sprite is       *)
(* inside the field of view when |rel| <= BearingSteps.  A texture is      *)
(* given by the alpha its sampler returns, or NoTexel when it returns None.*)
(***************************************************************************)
\* framebuffer.width and framebuffer.height
FbWidth == 5
FbHeight == 6

\* rel runs over -(BearingSteps + 1) .. BearingSteps + 1
BearingSteps == 2

Max(a, b) == IF a >= b THEN a ELSE b
Min(a, b) == IF a <= b THEN a ELSE b

\* `as isize` of the rational n / d (d > 0): truncation toward zero
Trunc(n, d) == IF n >= 0 THEN n \div d ELSE -((-n) \div d)

\* the sampler returned None
NoTexel == -1

\* f32::INFINITY, the value the depth buffer is created with
INFINITY == 1000000

\* a ray count rounded down
num_rays_Floor(column_step) == FbWidth \div column_step

\* num_rays = (framebuffer.width + column_step - 1) / column_step
num_rays(column_step) == (FbWidth + column_step - 1) \div column_step

\* a set_pixel that tests the column only
set_pixel_ColumnOnly(width, height, px, y) == px >= 0 /\ y >= 0 /\ px < width

\* framebuffer.set_pixel(x, y) on a width x height buffer writes only inside it
\* (x and y are u32: the callers pass no negative value)
set_pixel(width, height, px, y) == px >= 0 /\ y >= 0 /\ px < width /\ y < height

\* depth_buffer[i] = perp_dist for i in 0..num_rays, from entry i on
RECURSIVE depth_fill(_, _, _, _)
depth_fill(buf, i, n, perp) ==
  IF i >= n THEN buf ELSE depth_fill([buf EXCEPT ![i] = perp[i]], i + 1, n, perp)

\* a wall span that is not clamped to the framebuffer
wall_span_NoClamp(perp_dist) ==
  [top    |-> Trunc(FbHeight * perp_dist - 35 * FbHeight, 2 * perp_dist),
   bottom |-> Trunc(FbHeight * perp_dist + 35 * FbHeight, 2 * perp_dist)]

\* top and bottom of the wall column at perpendicular distance perp_dist:
\* stake_h = (hh / perp_dist) * 70 with hh = FbHeight / 2, top = (hh - stake_h / 2) and
\* bottom = (hh + stake_h / 2) as isize, then clamped to the framebuffer
wall_span(perp_dist) ==
  LET top    == Trunc(FbHeight * perp_dist - 35 * FbHeight, 2 * perp_dist)
      bottom == Trunc(FbHeight * perp_dist + 35 * FbHeight, 2 * perp_dist)
  IN [top    |-> IF top < 0 THEN 0 ELSE top,
      bottom |-> IF bottom >= FbHeight THEN FbHeight - 1 ELSE bottom]

\* the pixel columns ray i is replicated over: ix + xoff for xoff in 0..column_step,
\* left at the first px >= framebuffer.width
column_xs(i, column_step) ==
  { px \in (i * column_step)..(i * column_step + column_step - 1) : px < FbWidth }

\* the pixels the sky, wall and floor loops of ray i write
wall_column(i, column_step, perp_dist) ==
  LET s  == wall_span(perp_dist)
      xs == column_xs(i, column_step)
      band(name, rows) ==
        { [band |-> name, col |-> i, px |-> p[1], y |-> p[2]] :
            p \in { q \in xs \X rows : set_pixel(FbWidth, FbHeight, q[1], q[2]) } }
  IN band("sky", 0..(Max(s.top, 0) - 1))
     \cup band("wall", s.top..s.bottom)
     \cup band("floor", (s.bottom + 1)..(FbHeight - 1))

\* the wall pass of render_world: perp[i] is the perpendicular distance ray i finds.
\* depth is the depth_buffer it leaves, spans and pixels what it draws
wall_pass(column_step, perp) ==
  LET step == Max(column_step, 1)
      n    == num_rays(step)
  IN [depth  |-> depth_fill([i \in 0..(n - 1) |-> INFINITY], 0, n, perp),
      spans  |-> [i \in 0..(n - 1) |-> wall_span(perp[i])],
      pixels |-> UNION { wall_column(i, step, perp[i]) : i \in 0..(n - 1) }]

\* the depth_buffer indexes the xoff loop of one sprite reads
depth_reads(box, column_step) ==
  { px \div column_step :
      px \in { q \in (box.sx - box.half)..(box.sx + box.half) :
                q >= 0 /\ q \div column_step < num_rays(column_step) } }

\* the screen geometry of a sprite of height scale k (70 for agents, 60 for
\* collectibles), width factor wn / wd with least width wmin, at distance dist and
\* bearing rel, shifted down by off pixels: sprite_h = (hh / dist) * k with
\* hh = FbHeight / 2
sprite_box(dist, rel, k, wn, wd, wmin, off) ==
  LET w == Max(Trunc(FbHeight * k * wn, 2 * dist * wd), wmin)
  IN [sx     |-> Trunc((rel + BearingSteps) * FbWidth, 2 * BearingSteps),
      top    |-> Trunc(2 * FbHeight * dist - FbHeight * k + 4 * off * dist, 4 * dist),
      bottom |-> Trunc(2 * FbHeight * dist + FbHeight * k + 4 * off * dist, 4 * dist),
      half   |-> Max(w \div 2, 1)]

\* a sprite pass that compares the sprite distance with the wall depth itself
sprite_pixels_NoTolerance(dist, box, depth, column_step, alpha, amin) ==
  LET cols == { px \in (box.sx - box.half)..(box.sx + box.half) :
                  /\ px >= 0
                  /\ px \div column_step < num_rays(column_step)
                  /\ ~(dist > depth[px \div column_step]) }
  IN { p \in cols \X (Max(box.top, 0)..Min(box.bottom, FbHeight - 1)) :
         /\ alpha # NoTexel /\ alpha > amin
         /\ set_pixel(FbWidth, FbHeight, p[1], p[2]) }

\* the pixels one sprite writes: the loop over xoff with its three `continue`s, the
\* loop over y, the alpha threshold amin and set_pixel
sprite_pixels(dist, box, depth, column_step, alpha, amin) ==
  LET cols == { px \in (box.sx - box.half)..(box.sx + box.half) :
                  /\ px >= 0
                  /\ px \div column_step < num_rays(column_step)
                  /\ ~(dist > depth[px \div column_step] - 1) }
  IN { p \in cols \X (Max(box.top, 0)..Min(box.bottom, FbHeight - 1)) :
         /\ alpha # NoTexel /\ alpha > amin
         /\ set_pixel(FbWidth, FbHeight, p[1], p[2]) }

\* the pixels of agent k, seen at v = [dist, rel]
npc_pixels(k, v, depth, column_step, alpha) ==
  IF Abs(v.rel) > BearingSteps THEN {}
  ELSE { [kind |-> "npc", id |-> k, px |-> p[1], y |-> p[2]] :
           p \in sprite_pixels(v.dist, sprite_box(v.dist, v.rel, 70, 1, 2, 3, 0),
                               depth, column_step, alpha, 16) }

\* the pixels of collectible k, seen at v = [dist, rel, off] (off is the float offset)
coin_pixels(k, coin, v, depth, column_step, alpha) ==
  IF coin.collected THEN {}
  ELSE IF Abs(v.rel) > BearingSteps THEN {}
  ELSE { [kind |-> "coin", id |-> k, px |-> p[1], y |-> p[2]] :
           p \in sprite_pixels(v.dist, sprite_box(v.dist, v.rel, 60, 4, 5, 4, v.off),
                               depth, column_step, alpha, 64) }

\* the depth_buffer indexes the sprite pass of render_world reads
render_world_reads(cs, nviews, cviews, column_step) ==
  LET step == Max(column_step, 1)
  IN UNION { depth_reads(sprite_box(nviews[k].dist, nviews[k].rel, 70, 1, 2, 3, 0), step) :
               k \in { j \in DOMAIN nviews : Abs(nviews[j].rel) <= BearingSteps } }
     \cup
     UNION { depth_reads(sprite_box(cviews[k].dist, cviews[k].rel, 60, 4, 5, 4,
                                    cviews[k].off), step) :
               k \in { j \in DOMAIN cs :
                         ~cs[j].collected /\ Abs(cviews[j].rel) <= BearingSteps } }

\* a renderer that draws every collectible, gathered or not
render_world_DrawCollected(cs, nviews, cviews, depth, column_step, tex) ==
  LET step == Max(column_step, 1)
  IN UNION { npc_pixels(k, nviews[k], depth, step, tex.npc) : k \in DOMAIN nviews }
     \cup
     UNION { coin_pixels(k, [cs[k] EXCEPT !.collected = FALSE], cviews[k], depth, step,
                         tex.coin) : k \in DOMAIN cs }

\* render_world: the sprite pixels it writes.  cs are the collectibles, nviews and
\* cviews the distance and bearing of each agent and collectible, depth the
\* depth_buffer of the wall pass, tex the alpha of the agent and collectible textures
render_world(cs, nviews, cviews, depth, column_step, tex) ==
  LET step == Max(column_step, 1)
  IN UNION { npc_pixels(k, nviews[k], depth, step, tex.npc) : k \in DOMAIN nviews }
     \cup
     UNION { coin_pixels(k, cs[k], cviews[k], depth, step, tex.coin) : k \in DOMAIN cs }

(***************************************************************************)
(* sprite.rs: collectibles.  main.rs calls load_coins_from_maze and        *)
(* update_coins and renderer.rs reads coin.pos and coin.collected; the     *)
(* model takes a collectible per 'C' cell, at the centre of the cell, and  *)
(* gathers it when the viewer comes within coin_reach of it.               *)
(***************************************************************************)
Coin(px, py) == [x |-> px, y |-> py, collected |-> FALSE]

RECURSIVE load_coins_row(_, _, _, _)
load_coins_row(m, ry, rx, bs) ==
  IF rx >= Len(m[ry + 1]) THEN << >>
  ELSE (IF m[ry + 1][rx + 1] = "C"
        THEN << Coin(rx * bs + bs \div 2, ry * bs + bs \div 2) >>
        ELSE << >>) \o load_coins_row(m, ry, rx + 1, bs)

RECURSIVE load_coins_rows(_, _, _)
load_coins_rows(m, ry, bs) ==
  IF ry >= Len(m) THEN << >>
  ELSE load_coins_row(m, ry, 0, bs) \o load_coins_rows(m, ry + 1, bs)

\* load_coins_from_maze(maze, block_size)
load_coins_from_maze(m, bs) == load_coins_rows(m, 0, bs)

\* the viewer is within three quarters of a cell of the collectible
coin_reach(coin, p, bs) ==
  LET dx == p.x - coin.x
      dy == p.y - coin.y
  IN 16 * (dx * dx + dy * dy) <= 9 * bs * bs

\* update_coins(coins, player, block_size): the collectibles it leaves and the number
\* it gathered in this call
update_coins(cs, p, bs) ==
  LET got == { k \in DOMAIN cs : ~cs[k].collected /\ coin_reach(cs[k], p, bs) }
  IN [coins |-> [k \in DOMAIN cs |->
                   IF k \in got THEN [cs[k] EXCEPT !.collected = TRUE] ELSE cs[k]],
      collected |-> Cardinality(got)]

(***************************************************************************)
(* main.rs: values derived in the frame loop                               *)
(***************************************************************************)
\* doors open only when more collectibles are gathered than the level has
doors_open_Strict(total, cs) == total > Len(cs)

\* let doors_open = total_coins_collected >= coins.len()
doors_open(total, cs) == total >= Len(cs)

\* player_escaped: the doors are open and the viewer stands on a 'G' cell
player_escaped_at(m, p, bs, open) ==
  /\ open
  /\ LET player_grid_x == IF p.x < 0 THEN 0 ELSE p.x \div bs
         player_grid_y == IF p.y < 0 THEN 0 ELSE p.y \div bs
     IN /\ player_grid_y < Len(m)
        /\ player_grid_x < Len(m[player_grid_y + 1])
        /\ m[player_grid_y + 1][player_grid_x + 1] = "G"

\* total_coins_collected = update_coins(..) in place of +=
count_coins_Overwrite(total, got) == got

\* total_coins_collected += coins_collected_this_frame
count_coins(total, got) == total + got

\* discovered: a grid of the maze's shape, every cell false
fresh_discovered(m) == [j \in 1..Len(m) |-> [i \in 1..Len(m[j]) |-> FALSE]]

\* a restart that keeps the fog-of-war grid
restart_KeepDiscovered(m, bs, sp, disc) ==
  [player |-> [x |-> (3 * bs) \div 2, y |-> (3 * bs) \div 2],
   player_a |-> 0,
   npcs |-> load_npcs_from_maze(m, bs, sp),
   coins |-> load_coins_from_maze(m, bs),
   total_coins_collected |-> 0,
   discovered |-> disc]

\* the reset the victory and the game-over screen run on Enter; player_a counts the
\* rotation steps away from the initial angle PI / 3
restart(m, bs, sp, disc) ==
  [player |-> [x |-> (3 * bs) \div 2, y |-> (3 * bs) \div 2],
   player_a |-> 0,
   npcs |-> load_npcs_from_maze(m, bs, sp),
   coins |-> load_coins_from_maze(m, bs),
   total_coins_collected |-> 0,
   discovered |-> fresh_discovered(m)]

(***************************************************************************)
(* minimap.rs: render_minimap.  main.rs hands it the discovered grid; the  *)
(* model reveals the cells within reveal_radius (Chebyshev) of the         *)
(* viewer's cell.  With scale 14 and offset (12, 12), effective_scale is   *)
(* 14 and the cell origin is (24, 24).                                     *)
(***************************************************************************)
\* the framebuffer of the default window: 1300 x 900 at render_scale 2
fb_w == 650
fb_h == 450

minimap_scale == 14

reveal_radius == 1

\* cell (i, j) is within reveal_radius of cell c
near_cell(c, i, j) == Abs(i - c[1]) <= reveal_radius /\ Abs(j - c[2]) <= reveal_radius

\* a minimap that shows only the cells around the viewer's current cell
reveal_OnlyCurrent(disc, m, p, bs) ==
  LET c == cell_indices_from_pos(p.x, p.y, bs)
  IN [j \in DOMAIN disc |-> [i \in DOMAIN disc[j] |-> near_cell(c, i - 1, j - 1)]]

\* the discovered grid after revealing around the viewer: true stays true
reveal(disc, m, p, bs) ==
  LET c == cell_indices_from_pos(p.x, p.y, bs)
  IN [j \in DOMAIN disc |->
       [i \in DOMAIN disc[j] |-> disc[j][i] \/ near_cell(c, i - 1, j - 1)]]

\* the 3 x 3 marker of agent k: nxi = (origin_x + nx * effective_scale +
\* effective_scale * 0.5) as i32 with nx = npc.pos.x / block_size, likewise nyi
npc_marker(k, npc, bs) ==
  LET nxi == Trunc((24 + minimap_scale \div 2) * bs + minimap_scale * npc.x, bs)
      nyi == Trunc((24 + minimap_scale \div 2) * bs + minimap_scale * npc.y, bs)
  IN { [kind |-> "marker", id |-> k, px |-> p[1], y |-> p[2]] :
         p \in { q \in ((nxi - 1)..(nxi + 1)) \X ((nyi - 1)..(nyi + 1)) :
                   q[1] >= 0 /\ q[2] >= 0 /\ set_pixel(fb_w, fb_h, q[1], q[2]) } }

\* render_minimap: the discovered grid it leaves and the agent markers it draws
render_minimap(m, p, bs, ns, disc) ==
  [discovered |-> reveal(disc, m, p, bs),
   markers    |-> UNION { npc_marker(k, ns[k], bs) : k \in DOMAIN ns }]

\* side = (max_cells * scale) as i32 + padding, with padding = 24
minimap_side(m) ==
  LET cols == IF m = << >> THEN 1 ELSE Len(m[1])
  IN Max(Max(cols, Len(m)), 1) * minimap_scale + 24

\* the pixels the two border loops of render_minimap pass to set_pixel, at offset
\* (xo, yo): the rows oy and oy + side - 1, the columns ox and ox + side - 1
border_asked(m, xo, yo) ==
  LET side == minimap_side(m)
  IN { <<x, y>> : x \in xo..(xo + side - 1), y \in {yo, yo + side - 1} }
     \cup { <<x, y>> : x \in {xo, xo + side - 1}, y \in yo..(yo + side - 1) }

\* the border render_minimap writes on a width x height framebuffer
minimap_border(m, xo, yo, width, height) ==
  { [kind |-> "border", id |-> 0, px |-> q[1], y |-> q[2]] :
      q \in { r \in border_asked(m, xo, yo) : set_pixel(width, height, r[1], r[2]) } }

(***************************************************************************)
(* textures.rs: the samplers.  An image is [w, h, data] with data the      *)
(* RGBA pixels in row order (pixel (x, y) is data[y * w + x + 1]), or      *)
(* NoImage when the file was not loaded.  u and v are counted in steps of  *)
(* 1 / UvSteps.                                                            *)
(***************************************************************************)
UvSteps == 4

NoImage == [w |-> 0, h |-> 0, data |-> << >>]

Color(cr, cg, cb, ca) == [r |-> cr, g |-> cg, b |-> cb, a |-> ca]

\* Option<Color>::None
NoColor == [r |-> -1, g |-> -1, b |-> -1, a |-> -1]

\* u.fract().abs()
fract_abs(u) == Abs(u) % UvSteps

\* the image is Some and holds at least one pixel
loaded(img) == img # NoImage /\ Len(img.data) >= 1

\* the checkerboard of checks x checks squares returned when no texel is
checker(u, v, checks, even, odd) ==
  IF ((u * checks) \div UvSteps + (v * checks) \div UvSteps) % 2 = 0 THEN even ELSE odd

\* nearest texel of a w x h area at column offset x_off, or NoColor past the data
texel(img, w, h, x_off, u, v) ==
  LET x   == Min((u * w) \div UvSteps, w - 1) + x_off
      y   == Min((v * h) \div UvSteps, h - 1)
      idx == y * img.w + x
  IN IF idx < Len(img.data) THEN img.data[idx + 1] ELSE NoColor

\* sample_pixel of sample: alpha 0 is read as 1.0
sample_pixel(img, xx, yy) ==
  LET idx == yy * img.w + xx
  IN IF idx < Len(img.data)
     THEN [img.data[idx + 1] EXCEPT !.a = IF @ = 0 THEN 255 ELSE @]
     ELSE Color(0, 0, 0, 255)

\* the four texels sample filters at (u, v), as <<x0, y0, x1, y1, sx, sy>>; sx and sy
\* are the weights of x1 and y1 in steps of 1 / UvSteps
taps(img, u, v) ==
  LET x0 == (u * (img.w - 1)) \div UvSteps
      y0 == (v * (img.h - 1)) \div UvSteps
  IN <<x0, y0, Min(x0 + 1, img.w - 1), Min(y0 + 1, img.h - 1),
       u * (img.w - 1) - x0 * UvSteps, v * (img.h - 1) - y0 * UvSteps>>

\* channel value after lerp horizontally then vertically and `as u8`
bilinear(c00, c10, c01, c11, sx, sy) ==
  ((c00 * (UvSteps - sx) + c10 * sx) * (UvSteps - sy)
   + (c01 * (UvSteps - sx) + c11 * sx) * sy) \div (UvSteps * UvSteps)

\* TextureAtlas::sample(kind, u, v), img being the image of that kind
sample(img, u0, v0) ==
  LET u == fract_abs(u0)
      v == fract_abs(v0)
      fallback == checker(u, v, 8, Color(200, 180, 160, 255), Color(140, 120, 100, 255))
  IN IF loaded(img)
     THEN LET t   == taps(img, u, v)
              p00 == sample_pixel(img, t[1], t[2])
              p10 == sample_pixel(img, t[3], t[2])
              p01 == sample_pixel(img, t[1], t[4])
              p11 == sample_pixel(img, t[3], t[4])
              out == Color(bilinear(p00.r, p10.r, p01.r, p11.r, t[5], t[6]),
                           bilinear(p00.g, p10.g, p01.g, p11.g, t[5], t[6]),
                           bilinear(p00.b, p10.b, p01.b, p11.b, t[5], t[6]),
                           bilinear(p00.a, p10.a, p01.a, p11.a, t[5], t[6]))
          IN IF out.r = 0 /\ out.g = 0 /\ out.b = 0 THEN fallback ELSE out
     ELSE fallback

\* TextureAtlas::sample_npc(u, v) -> Option<Color>
sample_npc(img, u0, v0) ==
  IF loaded(img) THEN texel(img, img.w, img.h, 0, fract_abs(u0), fract_abs(v0))
  ELSE NoColor

\* TextureAtlas::sample_sky(u, v); without a texel, a vertical gradient
sample_sky(img, u0, v0) ==
  LET v == fract_abs(v0)
      t == IF loaded(img) THEN texel(img, img.w, img.h, 0, fract_abs(u0), v) ELSE NoColor
  IN IF t # NoColor THEN t
     ELSE Color((80 * (UvSteps - v) + 160 * v) \div UvSteps,
                (160 * (UvSteps - v) + 200 * v) \div UvSteps,
                (240 * (UvSteps - v) + 240 * v) \div UvSteps, 255)

\* TextureAtlas::sample_floor(u, v); without a texel, a checkerboard
sample_floor(img, u0, v0) ==
  LET u == fract_abs(u0)
      v == fract_abs(v0)
      t == IF loaded(img) THEN texel(img, img.w, img.h, 0, u, v) ELSE NoColor
  IN IF t # NoColor THEN t
     ELSE checker(u, v, 6, Color(120, 90, 60, 255), Color(100, 80, 60, 255))

\* TextureAtlas::sample_coin(u, v, animation_time) -> Option<Color>; frame is
\* CoinAnimation::get_current_frame(animation_time), one of the sheet's 12 frames
sample_coin(img, u0, v0, frame) ==
  IF loaded(img)
  THEN texel(img, img.w \div 12, img.h, frame * (img.w \div 12), fract_abs(u0),
             fract_abs(v0))
  ELSE NoColor

(***************************************************************************)
(* Indexing.  maze[j], maze[j][i] and the per-row visited / parent tables  *)
(* of next_step_bfs are Vec accesses: an index outside the vector panics.  *)
(* For each function the operators below list the indexes it uses, as      *)
(* [rows |-> the j of every maze[j], cells |-> the <<i, j>> of every       *)
(* maze[j][i] or table[j][i]], negative values included.                   *)
(***************************************************************************)
NoIndex == [rows |-> {}, cells |-> {}]

\* can_move_to without the test of j against maze.len()
can_move_to_indexes_NoRowCheck(m, x, y, bs) ==
  IF Len(m) = 0 THEN NoIndex
  ELSE IF x < 0 \/ y < 0 THEN NoIndex
  ELSE LET i == x \div bs
           j == y \div bs
       IN IF j < Len(m) /\ (Len(m[j + 1]) = 0 \/ i >= Len(m[j + 1]))
          THEN [rows |-> {j}, cells |-> {}]
          ELSE [rows |-> {j}, cells |-> {<<i, j>>}]

\* can_move_to: maze[j] after the test of j, maze[j][i] after the test of i
can_move_to_indexes(m, x, y, bs) ==
  IF Len(m) = 0 THEN NoIndex
  ELSE IF x < 0 \/ y < 0 THEN NoIndex
  ELSE LET i == x \div bs
           j == y \div bs
       IN IF j >= Len(m) THEN NoIndex
          ELSE IF Len(m[j + 1]) = 0 \/ i >= Len(m[j + 1])
               THEN [rows |-> {j}, cells |-> {}]
               ELSE [rows |-> {j}, cells |-> {<<i, j>>}]

\* in_bounds reads maze[j].len() once j is known to be a row; is_walkable_cell reads
\* maze[j][i] once in_bounds holds
is_walkable_cell_indexes(m, i, j) ==
  [rows  |-> IF j < 0 \/ j >= Len(m) THEN {} ELSE {j},
   cells |-> IF in_bounds(m, i, j) THEN {<<i, j>>} ELSE {}]

\* the cells line_of_sight tests: those of the traversal up to the first one that is
\* not walkable
RECURSIVE los_tested(_, _, _)
los_tested(m, cells, k) ==
  IF k > Len(cells) THEN {}
  ELSE IF ~is_walkable_cell(m, cells[k][1], cells[k][2]) THEN {cells[k]}
  ELSE {cells[k]} \cup los_tested(m, cells, k + 1)

line_of_sight_indexes(m, from_x, from_y, to_x, to_y, bs) ==
  LET t == los_tested(m, bresenham_cells(from_x, from_y, to_x, to_y, bs), 1)
  IN [rows  |-> UNION { is_walkable_cell_indexes(m, c[1], c[2]).rows : c \in t },
      cells |-> UNION { is_walkable_cell_indexes(m, c[1], c[2]).cells : c \in t }]

\* next_step_bfs: in_bounds of start and goal, the goal's symbol, then visited and
\* parent at the start, at every neighbour that in_bounds accepts, at the goal and
\* along the parent links
next_step_bfs_indexes(m, from_x, from_y, to_x, to_y, bs) ==
  LET s == cell_indices_from_pos(from_x, from_y, bs)
      g == cell_indices_from_pos(to_x, to_y, bs)
      ends == { j \in {s[2], g[2]} : j >= 0 /\ j < Len(m) }
  IN IF s = g THEN NoIndex
     ELSE IF ~in_bounds(m, s[1], s[2]) \/ ~in_bounds(m, g[1], g[2])
          THEN [rows |-> ends, cells |-> {}]
     ELSE IF ~is_walkable_cell(m, g[1], g[2]) THEN [rows |-> ends, cells |-> {g}]
     ELSE LET r == bfs_loop(m, <<s>>, {s}, << >>, g)
              nb == { <<c[1] + dirs[k][1], c[2] + dirs[k][2]>> :
                        c \in r.visited, k \in DOMAIN dirs }
              tested == { n \in nb : in_bounds(m, n[1], n[2]) }
          IN [rows  |-> ends \cup { j \in { c[2] : c \in nb } : j >= 0 /\ j < Len(m) },
              cells |-> {s, g} \cup r.visited \cup tested \cup DOMAIN r.parent]

\* cast_ray: maze[map_y].len() and maze[map_y][map_x] for every cell the ray enters
\* that passes the tests of line 76 and 77, and maze[map_y][map_x] again after a hit
cast_ray_indexes(m, pos, a, bs) ==
  LET r == dda(m, pos, a, bs)
      entered == { r.cells[k] : k \in DOMAIN r.cells }
      in_rows == { c \in entered : c[2] >= 0 /\ c[1] >= 0 /\ c[2] < Len(m) }
  IN [rows  |-> { c[2] : c \in in_rows },
      cells |-> { c \in in_rows : c[1] < Len(m[c[2] + 1]) }
                \cup (IF r.hit THEN {<<r.map_x, r.map_y>>} ELSE {})]

(***************************************************************************)
(* State machine of a level: main.rs runs process_events and update_npcs   *)
(* once per frame                                                          *)
(***************************************************************************)
\* last records the call made by the latest step: op names it, from is the viewer's
\* position and before the agents before the call, dx and dy the displacement asked of
\* process_events, a the angle given to cast_ray and cells the cells its ray entered,
\* ok and step the values can_move_to / line_of_sight and next_step_bfs returned,
\* arg the inputs of a renderer or sampler call
NoLast ==
  [op |-> "init", dx |-> 0, dy |-> 0, from |-> [x |-> 0, y |-> 0], before |-> << >>,
   a |-> AngleZero, ok |-> FALSE, step |-> None, cells |-> << >>, arg |-> << >>]

(***************************************************************************)
(* menu.rs: run_menu.  One pass of its loop reads window_should_close and  *)
(* then the keys pressed in that frame, in the order of the code; S counts *)
(* as Down and W as Up.                                                    *)
(***************************************************************************)
MenuKeys == {"Down", "Up", "Enter", "Escape", "Q"}

\* MenuAction::Quit, MenuAction::StartLevel(n); NoAction: the loop goes on
QuitAction == [kind |-> "Quit"]
StartLevelAction(n) == [kind |-> "StartLevel", level |-> n]
NoAction == [kind |-> "none"]

\* menu_state, main_selection and level_selection at the top of run_menu
menu_new == [menu_state |-> "Main", main_selection |-> 0, level_selection |-> 1]

\* level_selection + 1 with no wrap
level_down_NoWrap(l) == l + 1

\* if level_selection < 3 { level_selection + 1 } else { 1 }
level_down(l) == IF l < 3 THEN l + 1 ELSE 1

\* if level_selection > 1 { level_selection - 1 } else { 3 }
level_up(l) == IF l > 1 THEN l - 1 ELSE 3

\* the arm MenuState::Main of the match
menu_main(m, keys) ==
  LET down == IF "Down" \in keys THEN (m.main_selection + 1) % 2 ELSE m.main_selection
      sel == IF "Up" \in keys THEN (down + 2 - 1) % 2 ELSE down
      enter == "Enter" \in keys
  IN [menu |-> [m EXCEPT !.main_selection = sel,
                         !.menu_state = IF enter /\ sel = 0 THEN "LevelSelect" ELSE @],
      action |-> IF enter /\ sel # 0 THEN QuitAction
                 ELSE IF "Q" \in keys THEN QuitAction ELSE NoAction]

\* Enter returns the level selected before this frame's arrow keys
menu_level_select_StaleLevel(m, keys) ==
  LET down == IF "Down" \in keys THEN level_down(m.level_selection) ELSE m.level_selection
      sel == IF "Up" \in keys THEN level_up(down) ELSE down
      enter == "Enter" \in keys
  IN [menu |-> [m EXCEPT !.level_selection = sel,
                         !.menu_state = IF ~enter /\ "Escape" \in keys THEN "Main" ELSE @],
      action |-> IF enter THEN StartLevelAction(m.level_selection)
                 ELSE IF "Q" \in keys THEN QuitAction ELSE NoAction]

\* the arm MenuState::LevelSelect of the match; Enter returns before Escape is read
menu_level_select(m, keys) ==
  LET down == IF "Down" \in keys THEN level_down(m.level_selection) ELSE m.level_selection
      sel == IF "Up" \in keys THEN level_up(down) ELSE down
      enter == "Enter" \in keys
  IN [menu |-> [m EXCEPT !.level_selection = sel,
                         !.menu_state = IF ~enter /\ "Escape" \in keys THEN "Main" ELSE @],
      action |-> IF enter THEN StartLevelAction(sel)
                 ELSE IF "Q" \in keys THEN QuitAction ELSE NoAction]

\* one pass of the loop of run_menu: the close test, then the match on menu_state
run_menu_frame(m, keys, close) ==
  IF close THEN [menu |-> m, action |-> QuitAction]
  ELSE IF m.menu_state = "Main" THEN menu_main(m, keys)
  ELSE menu_level_select(m, keys)

(***************************************************************************)
(* audio.rs: AudioManager.  `device` is the audio side of raylib as the    *)
(* manager drives it: whether the device is open, whether it was ever      *)
(* opened while open or closed while closed, how many music streams were   *)
(* loaded and how often each was unloaded.                                 *)
(***************************************************************************)
\* music streams one run loads at most
MaxStreams == 3

\* Some(m) for the m-th stream loaded; Some(sound) for the coin sound
SomeStream(id) == [some |-> TRUE, id |-> id]
SomeSound == [some |-> TRUE]

\* AudioManager::new
AudioManager_new == [initialized |-> FALSE, music |-> None, coin_sound |-> None]

\* no call made yet
NoDevice ==
  [open |-> FALSE, misuse |-> FALSE, loaded |-> 0, unloads |-> [s \in 1..MaxStreams |-> 0]]

InitAudioDevice(d) == [d EXCEPT !.open = TRUE, !.misuse = @ \/ d.open]

CloseAudioDevice(d) == [d EXCEPT !.open = FALSE, !.misuse = @ \/ ~d.open]

\* StopMusicStream(m); UnloadMusicStream(m)
UnloadMusicStream(d, id) == [d EXCEPT !.unloads[id] = Min(@ + 1, 2)]

\* init: the device is opened and the coin sound loaded (sound_ok: the file is there
\* and valid) unless the manager is initialized already
init(a, d, sound_ok) ==
  IF ~a.initialized
  THEN [audio |-> [a EXCEPT !.initialized = TRUE,
                            !.coin_sound = IF sound_ok THEN SomeSound ELSE @],
        device |-> InitAudioDevice(d)]
  ELSE [audio |-> a, device |-> d]

\* play_menu_track / play_game_track: the first file that loads replaces self.music
\* (loaded_ok: some candidate file exists and IsMusicValid)
play_track(a, d, loaded_ok) ==
  IF loaded_ok
  THEN [audio |-> [a EXCEPT !.music = SomeStream(d.loaded + 1)],
        device |-> [d EXCEPT !.loaded = @ + 1]]
  ELSE [audio |-> a, device |-> d]

\* the stream is unloaded and self.music keeps it
stop_unload_KeepsHandle(a, d) ==
  IF a.music.some
  THEN [audio |-> a, device |-> UnloadMusicStream(d, a.music.id)]
  ELSE [audio |-> a, device |-> d]

\* if let Some(m) = self.music.take() { Stop; Unload }
stop_unload(a, d) ==
  IF a.music.some
  THEN [audio |-> [a EXCEPT !.music = None], device |-> UnloadMusicStream(d, a.music.id)]
  ELSE [audio |-> a, device |-> d]

\* cleanup: stop_unload, the coin sound is taken and unloaded, the device closed if
\* the manager is initialized
cleanup(a, d) ==
  LET s == stop_unload(a, d)
      taken == [s.audio EXCEPT !.coin_sound = None]
  IN IF taken.initialized
     THEN [audio |-> [taken EXCEPT !.initialized = FALSE],
           device |-> CloseAudioDevice(s.device)]
     ELSE [audio |-> taken, device |-> s.device]

\* the harnesses of the game core run no menu and hold no audio manager
NoApp ==
  /\ menu = menu_new
  /\ audio = AudioManager_new
  /\ device = NoDevice
  /\ phase = "game"

\* Player { pos: (150, 150) } with block_size 100: the centre of cell (1, 1)
PlayerStart(bs) == [x |-> (3 * bs) \div 2, y |-> (3 * bs) \div 2]

\* nothing rendered or sampled yet
NoView ==
  /\ depth_buffer = << >>
  /\ drawn = {}
  /\ image = NoImage
  /\ sampled = NoColor

\* main up to the frame loop, on one of the given levels: all but the collectibles
StartLevel(levels) ==
  /\ \E s \in levels : maze = s[1] /\ block_size = s[2]
  /\ player = PlayerStart(block_size)
  /\ player_a = 0
  /\ \E sp \in NpcSpeeds : npcs = load_npcs_from_maze(maze, block_size, sp)
  /\ discovered = fresh_discovered(maze)
  /\ touched = FALSE
  /\ player_escaped = FALSE
  /\ screen = "play"
  /\ hit = Sentinel(player)
  /\ last = NoLast

Start(levels) ==
  /\ StartLevel(levels)
  /\ NoApp
  /\ coins = load_coins_from_maze(maze, block_size)
  /\ total_coins_collected = 0
  /\ NoView

Init == Start(LevelSetups)

\* the game state of a harness: no collectible loaded, nothing discovered
NoGame ==
  /\ player_a = 0
  /\ player_escaped = FALSE
  /\ screen = "play"
  /\ coins = << >>
  /\ total_coins_collected = 0
  /\ discovered = fresh_discovered(maze)

\* displacements the keys can request in one frame
Moves == (-MaxMove)..MaxMove

\* process_events(&mut player, ..) with requested displacement (dx, dy)
\* (phase 2 of the frame loop of main; a frame runs it before update_npcs)
ProcessEvents ==
  \E dx \in Moves, dy \in Moves :
    /\ last.op # "process_events"
    /\ player' = process_events(maze, player, dx, dy, block_size)
    /\ last' = [NoLast EXCEPT !.op = "process_events", !.dx = dx, !.dy = dy,
                              !.from = player]
    /\ UNCHANGED <<app_vars, maze, block_size, npcs, touched, hit, game_vars, view_vars>>

\* player_dead = update_npcs(&mut npcs, &player, &maze, block_size)
UpdateNpcs ==
  LET r == update_npcs(npcs, player, maze, block_size)
  IN /\ last.op = "process_events"
     /\ npcs' = r.npcs
     /\ touched' = r.touched
     /\ last' = [NoLast EXCEPT !.op = "update_npcs", !.from = player, !.before = npcs]
     /\ UNCHANGED <<app_vars, maze, block_size, player, hit, game_vars, view_vars>>

Next == ProcessEvents \/ UpdateNpcs

Spec == Init /\ [][Next]_vars

(***************************************************************************)
(* Harnesses for the pure functions: the arguments are drawn in the        *)
(* initial state, each action applies one function to them.                *)
(*   SpecFn  : can_move_to and cast_ray from any lattice point             *)
(*   SpecNav : line_of_sight and next_step_bfs between any two cells       *)
(***************************************************************************)
\* the arguments reach FnSpan cells right of and below the origin, and one cell before it
FnSpan == 5

FnLattice(bs) == (-2)..(FnSpan * bs + 1)
FnCentres(bs) == { c * bs + bs \div 2 : c \in (-1)..FnSpan }

\* a single row longer than the step budget of cast_ray, closed by a wall
LongMaze == << [i \in 1..(max_steps + 3) |-> IF i = max_steps + 3 THEN "|" ELSE " "] >>

FnInit ==
  /\ NoApp
  /\ \/ /\ maze \in FnMazes
        /\ block_size \in BlockSizes
        /\ player \in [x : FnLattice(block_size), y : FnLattice(block_size)]
     \/ /\ maze = LongMaze
        /\ block_size \in BlockSizes
        /\ player \in [x : 0..(3 * block_size), y : {block_size \div 2}]
  /\ npcs = << >>
  /\ touched = FALSE
  /\ hit = Sentinel(player)
  /\ last = NoLast
  /\ NoGame
  /\ NoView

FnCanMoveTo ==
  /\ last' = [NoLast EXCEPT !.op = "can_move_to",
                            !.ok = can_move_to(maze, player.x, player.y, block_size)]
  /\ UNCHANGED <<app_vars, maze, block_size, player, npcs, touched, hit, game_vars, view_vars>>

FnCastRay ==
  \E a \in Angles :
    /\ hit' = cast_ray(maze, player, a, block_size)
    /\ last' = [NoLast EXCEPT !.op = "cast_ray", !.a = a,
                              !.cells = dda(maze, player, a, block_size).cells]
    /\ UNCHANGED <<app_vars, maze, block_size, player, npcs, touched, game_vars, view_vars>>

FnNext == FnCanMoveTo \/ FnCastRay

SpecFn == FnInit /\ [][FnNext]_vars

NavInit ==
  /\ NoApp
  /\ maze \in FnMazes
  /\ block_size \in BlockSizes
  /\ player \in [x : FnCentres(block_size), y : FnCentres(block_size)]
  /\ \E sp \in NpcSpeeds, ax \in FnCentres(block_size), ay \in FnCentres(block_size) :
       npcs = << NPC(ax, ay, sp) >>
  /\ touched = FALSE
  /\ hit = Sentinel(player)
  /\ last = NoLast
  /\ NoGame
  /\ NoView

NavLineOfSight ==
  /\ last.op = "init"
  /\ last' = [NoLast EXCEPT !.op = "line_of_sight",
                            !.ok = line_of_sight(maze, npcs[1].x, npcs[1].y,
                                                 player.x, player.y, block_size)]
  /\ UNCHANGED <<app_vars, maze, block_size, player, npcs, touched, hit, game_vars, view_vars>>

NavNextStepBfs ==
  /\ last.op = "init"
  /\ last' = [NoLast EXCEPT !.op = "next_step_bfs",
                            !.step = next_step_bfs(maze, npcs[1].x, npcs[1].y,
                                                   player.x, player.y, block_size)]
  /\ UNCHANGED <<app_vars, maze, block_size, player, npcs, touched, hit, game_vars, view_vars>>

\* one update_npcs call on the drawn agent and viewer
NavUpdateNpcs ==
  LET r == update_npcs(npcs, player, maze, block_size)
  IN /\ last.op = "init"
     /\ npcs' = r.npcs
     /\ touched' = r.touched
     /\ last' = [NoLast EXCEPT !.op = "update_npcs", !.from = player, !.before = npcs]
     /\ UNCHANGED <<app_vars, maze, block_size, player, hit, game_vars, view_vars>>

NavNext == NavLineOfSight \/ NavNextStepBfs \/ NavUpdateNpcs

SpecNav == NavInit /\ [][NavNext]_vars

(***************************************************************************)
(* SpecLevel: the whole frame loop of main on levels with collectibles     *)
(* and a goal.  A frame runs process_events, update_npcs, update_coins,    *)
(* the victory and game-over screens when they are due, then render_world  *)
(* and render_minimap.  render_world writes nothing but pixels; its sprite *)
(* pass is exercised in SpecRender.                                        *)
(***************************************************************************)
\* most rotation steps (ROTATION_SPEED each) the viewer is away from the initial angle
MaxTurn == 1

\* a collectible next to the start cell and a goal in the border
CoinMaze ==
  << <<"+", "-", "-", "-", "+">>,
     <<"|", " ", "C", " ", "|">>,
     <<"|", " ", " ", "R", "|">>,
     <<"+", "-", "G", "-", "+">> >>

\* no collectible; the viewer starts on the goal cell
GoalMaze ==
  << <<"+", "-", "-", "-", "+">>,
     <<"|", "G", " ", "R", "|">>,
     <<"+", "-", "-", "-", "+">> >>

CoinLevels == { <<CoinMaze, 2>>, <<GoalMaze, 2>> }

LevelInit == Start(CoinLevels)

\* process_events: rotation by the A / D keys, then the movement; then player_escaped
LevelEvents ==
  \E dx \in Moves, dy \in Moves, turn \in {-1, 0, 1} :
    /\ screen = "play"
    /\ last.op \in {"init", "render_minimap"}
    /\ Abs(player_a + turn) <= MaxTurn
    /\ player_a' = player_a + turn
    /\ player' = process_events(maze, player, dx, dy, block_size)
    /\ player_escaped' =
         player_escaped_at(maze, player', block_size,
                           doors_open(total_coins_collected, coins))
    /\ last' = [NoLast EXCEPT !.op = "process_events", !.dx = dx, !.dy = dy,
                              !.from = player]
    /\ UNCHANGED <<app_vars, maze, block_size, npcs, touched, hit, screen, coins,
                   total_coins_collected, discovered, view_vars>>

\* update_coins and the count; then the screen the frame goes to
UpdateCoins ==
  LET r == update_coins(coins, player, block_size)
  IN /\ last.op = "update_npcs"
     /\ coins' = r.coins
     /\ total_coins_collected' = count_coins(total_coins_collected, r.collected)
     /\ screen' = IF player_escaped THEN "victory"
                  ELSE IF touched THEN "game_over" ELSE "play"
     /\ last' = [NoLast EXCEPT !.op = "update_coins", !.arg = coins]
     /\ UNCHANGED <<app_vars, maze, block_size, player, npcs, touched, hit, player_a,
                    player_escaped, discovered, view_vars>>

\* Enter on the screen the game shows: the level starts again
Restart(from_screen, to_screen) ==
  \E sp \in NpcSpeeds :
    LET r == restart(maze, block_size, sp, discovered)
    IN /\ screen = from_screen
       /\ player' = r.player
       /\ player_a' = r.player_a
       /\ npcs' = r.npcs
       /\ coins' = r.coins
       /\ total_coins_collected' = r.total_coins_collected
       /\ discovered' = r.discovered
       /\ screen' = to_screen
       /\ last' = [NoLast EXCEPT !.op = "restart", !.from = player, !.before = npcs,
                                 !.arg = [screen |-> from_screen, coins |-> coins,
                                          discovered |-> discovered]]
       /\ UNCHANGED <<app_vars, maze, block_size, touched, hit, player_escaped, view_vars>>

\* the victory screen; `if player_dead` follows it in the same frame
VictoryRestart == Restart("victory", IF touched THEN "game_over" ELSE "play")

GameOverRestart == Restart("game_over", "play")

\* Q on either screen ends the program
Quit ==
  /\ screen \in {"victory", "game_over"}
  /\ screen' = "quit"
  /\ last' = [NoLast EXCEPT !.op = "quit"]
  /\ UNCHANGED <<app_vars, maze, block_size, player, npcs, touched, hit, player_a, player_escaped,
                 coins, total_coins_collected, discovered, view_vars>>

\* render_world, then render_minimap with the discovered grid
RenderFrame ==
  LET r == render_minimap(maze, player, block_size, npcs, discovered)
  IN /\ screen = "play"
     /\ last.op \in {"update_coins", "restart"}
     /\ discovered' = r.discovered
     /\ drawn' = r.markers
     /\ last' = [NoLast EXCEPT !.op = "render_minimap", !.arg = discovered]
     /\ UNCHANGED <<app_vars, maze, block_size, player, npcs, touched, hit, player_a,
                    player_escaped, screen, coins, total_coins_collected,
                    depth_buffer, image, sampled>>

LevelNext ==
  \/ LevelEvents
  \/ UpdateNpcs
  \/ UpdateCoins
  \/ VictoryRestart
  \/ GameOverRestart
  \/ Quit
  \/ RenderFrame

SpecLevel == LevelInit /\ [][LevelNext]_vars

(***************************************************************************)
(* SpecRender: one render_world call on an agent and a collectible seen at *)
(* the same spot, over any depth buffer the wall pass can leave            *)
(***************************************************************************)
ColumnSteps == {0, 1, 2, 3}
Depths == {5, 6, 61}
Dists == {1, 5, 60}
Rels == (-(BearingSteps + 1))..(BearingSteps + 1)
FloatOffsets == {0, -8}
NpcAlphas == {NoTexel, 16, 255}
CoinAlphas == {64, 255}

\* the level with its collectible gathered or not
RenderInit ==
  /\ StartLevel({<<CoinMaze, 2>>})
  /\ NoApp
  /\ \E c \in BOOLEAN :
       LET cs == load_coins_from_maze(maze, block_size)
       IN /\ coins = [k \in DOMAIN cs |-> [cs[k] EXCEPT !.collected = c]]
          /\ total_coins_collected = IF c THEN Len(cs) ELSE 0
  /\ NoView

\* render_world, first pass: the loop over the rays draws sky, wall and floor of every
\* column and fills depth_buffer
RenderWalls ==
  /\ last.op = "init"
  /\ \E column_step \in ColumnSteps :
       \E perp \in [0..(num_rays(Max(column_step, 1)) - 1) -> Depths] :
         LET walls == wall_pass(column_step, perp)
         IN /\ depth_buffer' = walls.depth
            /\ last' = [NoLast EXCEPT !.op = "render_world_walls",
                          !.arg = [column_step |-> column_step, spans |-> walls.spans,
                                   walls |-> walls.pixels]]
            /\ UNCHANGED <<app_vars, maze, block_size, player, npcs, touched, hit, game_vars,
                           drawn, image, sampled>>

\* render_world, second pass of the same call: the sprites of the agents and of the
\* collectibles, drawn against the depth_buffer of the first pass
RenderWorld ==
  /\ last.op = "render_world_walls"
  /\ \E dist \in Dists, rel \in Rels, off \in FloatOffsets,
        na \in NpcAlphas, ca \in CoinAlphas :
       LET column_step == last.arg.column_step
           nviews == [k \in DOMAIN npcs |-> [dist |-> dist, rel |-> rel]]
           cviews == [k \in DOMAIN coins |-> [dist |-> dist, rel |-> rel, off |-> off]]
           tex    == [npc |-> na, coin |-> ca]
       IN /\ drawn' = render_world(coins, nviews, cviews, depth_buffer, column_step, tex)
          /\ last' = [NoLast EXCEPT !.op = "render_world",
                        !.arg = [column_step |-> column_step, nviews |-> nviews,
                                 cviews |-> cviews, tex |-> tex,
                                 reads |-> render_world_reads(coins, nviews, cviews,
                                                              column_step)]]
          /\ UNCHANGED <<app_vars, maze, block_size, player, npcs, touched, hit, game_vars,
                         depth_buffer, image, sampled>>

RenderNext == RenderWalls \/ RenderWorld

SpecRender == RenderInit /\ [][RenderNext]_vars

(***************************************************************************)
(* SpecTex: each sampler applied to an image at any (u, v)                 *)
(***************************************************************************)
\* source pixels: opaque and fully transparent, coloured and black
Pixels ==
  { Color(255, 0, 0, 255), Color(255, 0, 0, 0), Color(0, 0, 0, 255), Color(0, 0, 0, 0) }

\* 2 x 2 images, the missing image, and 12-frame sheets of one pixel per frame
Images ==
  {NoImage}
  \cup { [w |-> 2, h |-> 2, data |-> d] : d \in [1..4 -> Pixels] }
  \cup { [w |-> 12, h |-> 1, data |-> [i \in 1..12 |-> d[1 + (i % 2)]]] :
           d \in [1..2 -> Pixels] }

Uv == (-1)..(UvSteps + 1)

TexInit ==
  /\ StartLevel({<<RoomMaze, 4>>})
  /\ NoApp
  /\ coins = load_coins_from_maze(maze, block_size)
  /\ total_coins_collected = 0
  /\ depth_buffer = << >>
  /\ drawn = {}
  /\ sampled = NoColor
  /\ image \in Images

TexSample ==
  /\ last.op = "init"
  /\ \E u \in Uv, v \in Uv :
    /\ sampled' = sample(image, u, v)
    /\ last' = [NoLast EXCEPT !.op = "sample", !.arg = <<u, v>>]
    /\ UNCHANGED <<app_vars, maze, block_size, player, npcs, touched, hit, game_vars,
                   depth_buffer, drawn, image>>

TexSampleSky ==
  /\ last.op = "init"
  /\ \E u \in Uv, v \in Uv :
    /\ sampled' = sample_sky(image, u, v)
    /\ last' = [NoLast EXCEPT !.op = "sample_sky", !.arg = <<u, v>>]
    /\ UNCHANGED <<app_vars, maze, block_size, player, npcs, touched, hit, game_vars,
                   depth_buffer, drawn, image>>

TexSampleFloor ==
  /\ last.op = "init"
  /\ \E u \in Uv, v \in Uv :
    /\ sampled' = sample_floor(image, u, v)
    /\ last' = [NoLast EXCEPT !.op = "sample_floor", !.arg = <<u, v>>]
    /\ UNCHANGED <<app_vars, maze, block_size, player, npcs, touched, hit, game_vars,
                   depth_buffer, drawn, image>>

TexSampleNpc ==
  /\ last.op = "init"
  /\ \E u \in Uv, v \in Uv :
    /\ sampled' = sample_npc(image, u, v)
    /\ last' = [NoLast EXCEPT !.op = "sample_npc", !.arg = <<u, v>>]
    /\ UNCHANGED <<app_vars, maze, block_size, player, npcs, touched, hit, game_vars,
                   depth_buffer, drawn, image>>

\* the collectible sheet has 12 frames side by side
TexSampleCoin ==
  /\ last.op = "init"
  /\ image = NoImage \/ image.w >= 12
  /\ \E u \in Uv, v \in Uv, frame \in 0..11 :
    /\ sampled' = sample_coin(image, u, v, frame)
    /\ last' = [NoLast EXCEPT !.op = "sample_coin", !.arg = <<u, v, frame>>]
    /\ UNCHANGED <<app_vars, maze, block_size, player, npcs, touched, hit, game_vars,
                   depth_buffer, drawn, image>>

TexNext == TexSample \/ TexSampleSky \/ TexSampleFloor \/ TexSampleNpc \/ TexSampleCoin

SpecTex == TexInit /\ [][TexNext]_vars

(***************************************************************************)
(* run_menu on its own: the frames of the menu loop until it returns       *)
(***************************************************************************)
\* largest width and height of the menu image
MaxImage == 3

\* textures.menu: no image, or one of w x h texels
MenuImages ==
  {None} \cup { [some |-> TRUE, w |-> w, h |-> h] : w \in 1..MaxImage, h \in 1..MaxImage }

\* the pixels a frame of run_menu writes: the background (or the full-screen fallback)
\* and the image scaled into a centred rectangle of tw x th pixels
menu_draw(img) ==
  LET back == { [kind |-> "menu", id |-> 0, px |-> q[1], y |-> q[2]] :
                  q \in { r \in (0..(FbWidth - 1)) \X (0..(FbHeight - 1)) :
                            set_pixel(FbWidth, FbHeight, r[1], r[2]) } }
  IN IF ~img.some THEN back
     ELSE LET tw == Min(FbWidth, (FbHeight * img.w) \div img.h)
              th == Min(FbHeight, (FbWidth * img.h) \div img.w)
              ox == (FbWidth - tw) \div 2
              oy == (FbHeight - th) \div 2
          IN back \cup
             { [kind |-> "menu", id |-> 1, px |-> q[1], y |-> q[2]] :
                 q \in { r \in (ox..(ox + tw - 1)) \X (oy..(oy + th - 1)) :
                           /\ r[1] >= 0 /\ r[2] >= 0
                           /\ r[1] < FbWidth /\ r[2] < FbHeight
                           /\ set_pixel(FbWidth, FbHeight, r[1], r[2]) } }

\* the level the menu runs in front of: none is loaded yet
MenuWorld ==
  /\ StartLevel({<<RoomMaze, 2>>})
  /\ coins = << >>
  /\ total_coins_collected = 0
  /\ NoView

MenuInit ==
  /\ MenuWorld
  /\ menu = menu_new
  /\ audio = AudioManager_new
  /\ device = NoDevice
  /\ phase = "menu"

\* one pass of the loop of run_menu
MenuFrame ==
  /\ phase = "menu"
  /\ \E keys \in SUBSET MenuKeys, close \in BOOLEAN, img \in MenuImages :
       LET r == run_menu_frame(menu, keys, close)
       IN /\ menu' = r.menu
          /\ phase' = IF r.action.kind = "none" THEN "menu" ELSE "returned"
          /\ drawn' = IF close THEN drawn ELSE menu_draw(img)
          /\ last' = [NoLast EXCEPT !.op = "run_menu",
                        !.arg = [keys |-> keys, close |-> close, menu |-> menu,
                                 action |-> r.action]]
          /\ UNCHANGED <<maze, block_size, player, npcs, touched, hit, game_vars,
                         depth_buffer, image, sampled, audio, device>>

MenuNext == MenuFrame

SpecMenu == MenuInit /\ [][MenuNext]_vars

(***************************************************************************)
(* AudioManager on its own: its public methods called in any order         *)
(***************************************************************************)
AudioInit0 ==
  /\ MenuWorld
  /\ menu = menu_new
  /\ audio = AudioManager_new
  /\ device = NoDevice
  /\ phase = "audio"

\* a call of method op that leaves the manager and the device as r
AudioCall(op, r) ==
  /\ audio' = r.audio
  /\ device' = r.device
  /\ last' = [NoLast EXCEPT !.op = op, !.arg = [audio |-> audio, device |-> device]]
  /\ UNCHANGED <<maze, block_size, player, npcs, touched, hit, game_vars, view_vars,
                 menu, phase>>

AudioInit == \E sound_ok \in BOOLEAN : AudioCall("audio_init", init(audio, device, sound_ok))

AudioPlay ==
  \E loaded_ok \in BOOLEAN :
    /\ loaded_ok => device.loaded < MaxStreams
    /\ AudioCall("audio_play", play_track(audio, device, loaded_ok))

AudioStopUnload == AudioCall("audio_stop_unload", stop_unload(audio, device))

AudioCleanup == AudioCall("audio_cleanup", cleanup(audio, device))

AudioNext == AudioInit \/ AudioPlay \/ AudioStopUnload \/ AudioCleanup

SpecAudio == AudioInit0 /\ [][AudioNext]_vars

(***************************************************************************)
(* main.rs: the life of main, from the audio manager and the menu to its   *)
(* return.  main.rs calls process_events with doors_open, an argument the  *)
(* function in player.rs does not take: where a frame leaves the viewer is *)
(* an input here, any point of the open row of the level.  The rest of the *)
(* frame (player_escaped, update_npcs, the two screens) is the code of     *)
(* main.rs.                                                                *)
(***************************************************************************)
AppLevels == { <<GoalMaze, 4>> }

\* the points process_events can leave the viewer at
AppSpots ==
  { [x |-> x, y |-> y] : x \in block_size..(4 * block_size - 1),
                         y \in block_size..(2 * block_size - 1) }

\* let mut audio = AudioManager::new(); audio.init(); audio.play_menu_track();
\* the level is the one main loads after the menu
AppInit ==
  /\ StartLevel(AppLevels)
  /\ coins = load_coins_from_maze(maze, block_size)
  /\ total_coins_collected = 0
  /\ NoView
  /\ menu = menu_new
  /\ \E sound_ok \in BOOLEAN, loaded_ok \in BOOLEAN :
       LET i == init(AudioManager_new, NoDevice, sound_ok)
           p == play_track(i.audio, i.device, loaded_ok)
       IN audio = p.audio /\ device = p.device
  /\ phase = "menu"

\* main moves on to phase `to`; r is what it made of the audio manager on the way and
\* cleaned tells whether that was a call of cleanup
AppStep(op, to, r, cleaned) ==
  /\ phase' = to
  /\ audio' = r.audio
  /\ device' = r.device
  /\ last' = [NoLast EXCEPT !.op = op, !.arg = [from |-> phase, cleanup |-> cleaned]]

\* the audio manager left alone
SameAudio == [audio |-> audio, device |-> device]

\* a pass of the loop of run_menu and, once it returns, the match on its result
AppMenu ==
  /\ phase = "menu"
  /\ \E keys \in SUBSET MenuKeys, close \in BOOLEAN, img \in MenuImages,
        loaded_ok \in BOOLEAN :
       LET r == run_menu_frame(menu, keys, close)
           stopped == stop_unload(audio, device)
       IN /\ menu' = r.menu
          /\ drawn' = IF close THEN drawn ELSE menu_draw(img)
          /\ CASE r.action.kind = "Quit" ->
                    AppStep("run_menu", "returned", cleanup(audio, device), TRUE)
               [] r.action.kind = "StartLevel" ->
                    AppStep("run_menu", "play",
                            play_track(stopped.audio, stopped.device, loaded_ok), FALSE)
               [] OTHER -> AppStep("run_menu", "menu", SameAudio, FALSE)
          /\ UNCHANGED <<maze, block_size, player, npcs, touched, hit, game_vars,
                         depth_buffer, image, sampled>>

\* the test of the frame loop and a frame of the game up to the screens:
\* framebuffer.clear, process_events, player_escaped, player_dead = update_npcs(..),
\* update_coins; the frame goes to the victory screen, to the game-over screen or to
\* its end; audio.update changes nothing
AppFrame ==
  /\ phase = "play"
  /\ \E close \in BOOLEAN, spot \in AppSpots :
       IF close
       THEN /\ AppStep("frame", "returned", SameAudio, FALSE)
            /\ UNCHANGED <<player, npcs, touched, player_escaped, coins,
                           total_coins_collected, drawn>>
       ELSE LET open == doors_open(total_coins_collected, coins)
                escaped == player_escaped_at(maze, spot, block_size, open)
                moved == update_npcs(npcs, spot, maze, block_size)
                got == update_coins(coins, spot, block_size)
            IN /\ drawn' = {}
               /\ player' = spot
               /\ player_escaped' = escaped
               /\ npcs' = moved.npcs
               /\ touched' = moved.touched
               /\ coins' = got.coins
               /\ total_coins_collected' = count_coins(total_coins_collected, got.collected)
               /\ AppStep("frame", IF escaped THEN "victory"
                                   ELSE IF moved.touched THEN "game_over" ELSE "play",
                          SameAudio, FALSE)
  /\ UNCHANGED <<maze, block_size, hit, player_a, screen, discovered, depth_buffer,
                 image, sampled, menu>>

\* Enter or Q on the screen main shows in phase `on`: Enter puts the level back and goes
\* on with the frame at `next`, Q cleans up and returns
AppScreen(on, next) ==
  /\ phase = on
  /\ \E key \in {"Enter", "Q"}, sp \in NpcSpeeds :
       LET r == restart(maze, block_size, sp, discovered)
       IN IF key = "Enter"
          THEN /\ player' = r.player
               /\ player_a' = r.player_a
               /\ npcs' = r.npcs
               /\ coins' = r.coins
               /\ total_coins_collected' = r.total_coins_collected
               /\ discovered' = r.discovered
               /\ AppStep(on, next, SameAudio, FALSE)
          ELSE /\ AppStep(on, "returned", cleanup(audio, device), TRUE)
               /\ UNCHANGED <<player, player_a, npcs, coins, total_coins_collected,
                              discovered>>
  /\ UNCHANGED <<maze, block_size, touched, hit, player_escaped, screen, view_vars, menu>>

\* the victory screen; `if player_dead` follows it in the same frame
AppVictory == AppScreen("victory", IF touched THEN "game_over" ELSE "play")

\* the game-over screen; the rest of the frame follows it
AppGameOver == AppScreen("game_over", "play")

AppNext == AppMenu \/ AppFrame \/ AppVictory \/ AppGameOver

SpecApp == AppInit /\ [][AppNext]_vars

(***************************************************************************)
(* update_npcs frame after frame with a viewer that stands still.  The     *)
(* frame loop of main calls update_npcs once per frame for as long as it   *)
(* runs, which is the fairness of SpecPursuit.  The levels have the cell   *)
(* size 4, for which the touch threshold (block_size / 4) is the distance  *)
(* 1.0 below which an agent no longer moves.  The viewer stands at the     *)
(* corner its cell starts at or at the centre of the cell, on either axis: *)
(* next to a cell border an agent can come to rest on the other side of    *)
(* it.  A velocity component below half a lattice unit is rounded to zero  *)
(* by steer; the viewer points away from the corner and the centre, where  *)
(* an agent sliding along a wall would wait for such a component, are left *)
(* out.                                                                    *)
(***************************************************************************)
PursuitLevels == { <<RoomMaze, 4>>, <<PillarMaze, 4>>, <<SplitMaze, 4>> }

\* the points of the open cells of the level
OpenPoints(m, bs) ==
  { p \in [x : 0..(5 * bs - 1), y : 0..(Len(m) * bs - 1)] : can_move_to(m, p.x, p.y, bs) }

\* where the viewer stands: the corner or the centre of an open cell, per axis
ViewerSpots(m, bs) ==
  { p \in OpenPoints(m, bs) : p.x % bs \in {0, bs \div 2} /\ p.y % bs \in {0, bs \div 2} }

PursuitInit ==
  /\ NoApp
  /\ \E s \in PursuitLevels : maze = s[1] /\ block_size = s[2]
  /\ player \in ViewerSpots(maze, block_size)
  /\ \E sp \in NpcSpeeds : npcs = load_npcs_from_maze(maze, block_size, sp)
  /\ touched = FALSE
  /\ hit = Sentinel(player)
  /\ last = NoLast
  /\ NoGame
  /\ NoView

\* player_dead = update_npcs(&mut npcs, &player, &maze, block_size), the viewer at rest
Pursue ==
  LET r == update_npcs(npcs, player, maze, block_size)
  IN /\ npcs' = r.npcs
     /\ touched' = r.touched
     /\ last' = [NoLast EXCEPT !.op = "update_npcs", !.from = player, !.before = npcs]
     /\ UNCHANGED <<app_vars, maze, block_size, player, hit, game_vars, view_vars>>

PursuitNext == Pursue

\* the while loop of main runs one more frame: the record the frame leaves in last.
\* Pursue is always enabled and changes a state exactly when it changes last (a call
\* that leaves last as it is started from npcs = last.before and gave npcs back), so
\* weak fairness of NextFrame on last is weak fairness of Pursue.
NextFrame ==
  last' = [NoLast EXCEPT !.op = "update_npcs", !.from = player, !.before = npcs]

SpecPursuit == PursuitInit /\ [][PursuitNext]_vars /\ WF_last(NextFrame)

(***************************************************************************)
(* SpecDraw: every call that draws into the framebuffer.  run_menu draws   *)
(* a frame after the other until it returns; each frame of the level then  *)
(* calls render_world and render_minimap.  drawn holds the pixels the      *)
(* latest call wrote and last.arg the size of the framebuffer it wrote to. *)
(***************************************************************************)
\* (framebuffer.width, framebuffer.height) at render_scale 2: the default window, and
\* a window of 201 x 201, the smallest the command line may ask for
DrawSizes == { <<fb_w, fb_h>>, <<100, 100>> }

\* the keys of a menu frame: none, or Enter
DrawKeys == { {}, {"Enter"} }

DrawInit ==
  /\ StartLevel({<<CoinMaze, 2>>})
  /\ coins = load_coins_from_maze(maze, block_size)
  /\ total_coins_collected = 0
  /\ NoView
  /\ menu = menu_new
  /\ audio = AudioManager_new
  /\ device = NoDevice
  /\ phase = "menu"

DrawCall(op, width, height) ==
  last' = [NoLast EXCEPT !.op = op, !.arg = [width |-> width, height |-> height]]

\* one pass of the loop of run_menu that draws; StartLevel ends the menu
DrawMenu ==
  /\ phase = "menu"
  /\ \E keys \in DrawKeys, img \in MenuImages :
       LET r == run_menu_frame(menu, keys, FALSE)
       IN /\ menu' = r.menu
          /\ phase' = IF r.action.kind = "StartLevel" THEN "play" ELSE "menu"
          /\ drawn' = menu_draw(img)
          /\ DrawCall("run_menu", FbWidth, FbHeight)
          /\ UNCHANGED <<maze, block_size, player, npcs, touched, hit, game_vars,
                         depth_buffer, image, sampled, audio, device>>

\* render_world, both passes: the columns of sky, wall and floor at one depth, then
\* the sprites of the agents and of the collectibles
DrawWorld ==
  /\ phase = "play"
  /\ last.op # "render_world"
  /\ \E column_step \in ColumnSteps, d \in Depths, dist \in Dists, rel \in Rels,
        off \in FloatOffsets, na \in NpcAlphas, ca \in CoinAlphas :
       LET perp   == [i \in 0..(num_rays(Max(column_step, 1)) - 1) |-> d]
           walls  == wall_pass(column_step, perp)
           nviews == [k \in DOMAIN npcs |-> [dist |-> dist, rel |-> rel]]
           cviews == [k \in DOMAIN coins |-> [dist |-> dist, rel |-> rel, off |-> off]]
           tex    == [npc |-> na, coin |-> ca]
       IN /\ depth_buffer' = walls.depth
          /\ drawn' = { [kind |-> w.band, id |-> w.col, px |-> w.px, y |-> w.y] :
                          w \in walls.pixels }
                      \cup render_world(coins, nviews, cviews, walls.depth, column_step, tex)
          /\ DrawCall("render_world", FbWidth, FbHeight)
          /\ UNCHANGED <<app_vars, maze, block_size, player, npcs, touched, hit, game_vars,
                         image, sampled>>

\* render_minimap(&mut framebuffer, &maze, minimap_scale, &player, 12, 12, ...): the
\* border and the agent markers
DrawMinimap ==
  /\ phase = "play"
  /\ last.op = "render_world"
  /\ \E size \in DrawSizes :
       /\ drawn' = minimap_border(maze, 12, 12, size[1], size[2])
                   \cup render_minimap(maze, player, block_size, npcs, discovered).markers
       /\ DrawCall("render_minimap", size[1], size[2])
       /\ UNCHANGED <<app_vars, maze, block_size, player, npcs, touched, hit, game_vars,
                      depth_buffer, image, sampled>>

DrawNext == DrawMenu \/ DrawWorld \/ DrawMinimap

SpecDraw == DrawInit /\ [][DrawNext]_vars

(***************************************************************************)
(* Claims                                                                  *)
(***************************************************************************)
\* what the latest movement call asked for, seen from the position before it
MoveOf(old, nx, ny) ==
  [full |-> can_move_to(maze, nx, ny, block_size),
   xok  |-> can_move_to(maze, nx, old.y, block_size),
   yok  |-> can_move_to(maze, old.x, ny, block_size)]

PlayerMove == MoveOf(last.from, last.from.x + last.dx, last.from.y + last.dy)

NpcMove(i) ==
  LET t == npc_target(maze, last.before[i], player, block_size)
  IN MoveOf(last.before[i], t[1], t[2])

NpcTarget(i) == npc_target(maze, last.before[i], player, block_size)

\* C1: movement never enters a blocking cell.  After process_events, a viewer that stood
\* on an occupiable point stands on an occupiable point, whatever displacement was asked;
\* after update_npcs the same holds of every agent; and when exactly one of the X-only
\* and Y-only destinations is occupiable, that axis is committed.
C1_MovementStaysOccupiable ==
  /\ last.op = "process_events" =>
       /\ can_move_to(maze, last.from.x, last.from.y, block_size)
            => can_move_to(maze, player.x, player.y, block_size)
       /\ (PlayerMove.xok /\ ~PlayerMove.yok) => player.x = last.from.x + last.dx
       /\ (PlayerMove.yok /\ ~PlayerMove.xok) => player.y = last.from.y + last.dy
  /\ last.op = "update_npcs" =>
       \A i \in DOMAIN npcs :
         /\ can_move_to(maze, last.before[i].x, last.before[i].y, block_size)
              => can_move_to(maze, npcs[i].x, npcs[i].y, block_size)
         /\ (NpcMove(i).xok /\ ~NpcMove(i).yok) => npcs[i].x = NpcTarget(i)[1]
         /\ (NpcMove(i).yok /\ ~NpcMove(i).xok) => npcs[i].y = NpcTarget(i)[2]

\* C1 witness: a diagonal request along a wall; the combined and the Y-only destination
\* are blocked, the X-only one is open, and the viewer has slid along X
C1_Witness ==
  /\ last.op = "process_events"
  /\ last.dx # 0 /\ last.dy # 0
  /\ ~PlayerMove.full /\ PlayerMove.xok /\ ~PlayerMove.yok
  /\ player = [x |-> last.from.x + last.dx, y |-> last.from.y]

\* C2 as claimed: with the combined destination blocked, each axis is tested against the
\* original position and committed on its own
C2_AxesTestedAgainstOriginal ==
  /\ (last.op = "process_events" /\ ~PlayerMove.full) =>
       player = [x |-> IF PlayerMove.xok THEN last.from.x + last.dx ELSE last.from.x,
                 y |-> IF PlayerMove.yok THEN last.from.y + last.dy ELSE last.from.y]
  /\ last.op = "update_npcs" =>
       \A i \in DOMAIN npcs :
         ~NpcMove(i).full =>
           /\ npcs[i].x = IF NpcMove(i).xok THEN NpcTarget(i)[1] ELSE last.before[i].x
           /\ npcs[i].y = IF NpcMove(i).yok THEN NpcTarget(i)[2] ELSE last.before[i].y

\* C2 amended: with the combined destination blocked, the X-only destination is tested
\* against the original position and committed first; the Y-only destination is tested
\* against the position after that commit, so Y is committed exactly when the X-only
\* destination is not occupiable and (x, y+dy) is
C2_SlideXThenY ==
  /\ (last.op = "process_events" /\ ~PlayerMove.full) =>
       player = [x |-> IF PlayerMove.xok THEN last.from.x + last.dx ELSE last.from.x,
                 y |-> IF ~PlayerMove.xok /\ PlayerMove.yok
                       THEN last.from.y + last.dy ELSE last.from.y]
  /\ last.op = "update_npcs" =>
       \A i \in DOMAIN npcs :
         ~NpcMove(i).full =>
           /\ npcs[i].x = IF NpcMove(i).xok THEN NpcTarget(i)[1] ELSE last.before[i].x
           /\ npcs[i].y = IF ~NpcMove(i).xok /\ NpcMove(i).yok
                          THEN NpcTarget(i)[2] ELSE last.before[i].y

\* C2 witness: a diagonal request at a convex corner; both single-axis destinations are
\* open, the combined one is blocked, and only X has been committed
C2_Witness ==
  /\ last.op = "process_events"
  /\ ~PlayerMove.full /\ PlayerMove.xok /\ PlayerMove.yok
  /\ last.dx # 0 /\ last.dy # 0
  /\ player = [x |-> last.from.x + last.dx, y |-> last.from.y]

\* the point (x, y) lies in a cell that is inside its row and holds ' ' or 'R'
Occupiable(m, x, y, bs) ==
  \/ m = << >>
  \/ /\ x >= 0 /\ y >= 0
     /\ (y \div bs) + 1 \in DOMAIN m
     /\ (x \div bs) + 1 \in DOMAIN m[(y \div bs) + 1]
     /\ m[(y \div bs) + 1][(x \div bs) + 1] \in {" ", "R"}

\* C3: can_move_to is true exactly when the grid has no rows, or x >= 0, y >= 0 and the
\* enclosing cell lies inside its row and holds ' ' or 'R'
C3_CanMoveToExact ==
  last.op = "can_move_to" =>
    last.ok = Occupiable(maze, player.x, player.y, block_size)

\* C3 witness: a point right of the end of a short row of a jagged grid, inside the
\* width of a longer row, is refused
C3_Witness ==
  /\ last.op = "can_move_to" /\ ~last.ok
  /\ player.x >= 0 /\ player.y >= 0
  /\ (player.y \div block_size) + 1 \in DOMAIN maze
  /\ Len(maze[(player.y \div block_size) + 1]) > 0
  /\ (player.x \div block_size) >= Len(maze[(player.y \div block_size) + 1])
  /\ \E r \in DOMAIN maze : (player.x \div block_size) < Len(maze[r])

\* cell c = <<i, j>> lies inside row j of the grid
InGrid(m, c) ==
  /\ c[1] >= 0 /\ c[2] >= 0
  /\ c[2] < Len(m)
  /\ c[1] < Len(m[c[2] + 1])

SymAt(m, c) == m[c[2] + 1][c[1] + 1]

Passable(sym) == sym \in {" ", "R"}

Adjacent4(c, d) == Abs(c[1] - d[1]) + Abs(c[2] - d[2]) = 1

ViewerCell == <<player.x \div block_size, player.y \div block_size>>

\* C4: cast_ray returns the sentinel hit (distance 2000, impact ' ', hit point at the
\* ray origin) whenever the ray leaves the grid or runs out of its 2000 steps without
\* entering a blocking cell; every ray cast in a grid with no blocking cell returns it
C4_SentinelOnMiss ==
  last.op = "cast_ray" =>
    LET n == Len(last.cells)
    IN /\ n >= 1 /\ n <= max_steps
       /\ ( \/ ~InGrid(maze, last.cells[n])
            \/ /\ n = max_steps
               /\ \A k \in 1..n : /\ InGrid(maze, last.cells[k])
                                  /\ Passable(SymAt(maze, last.cells[k])) )
            => /\ hit.distance = <<2000, 1>>
               /\ hit.impact = " "
               /\ hit.hit_x = <<player.x, 1>>
               /\ hit.hit_y = <<player.y, 1>>
       /\ (\A j \in DOMAIN maze : \A i \in DOMAIN maze[j] : Passable(maze[j][i]))
            => hit = Sentinel(player)

\* C4 witness: a ray along a row longer than the step budget stops inside the grid after
\* max_steps passable cells, before the wall that closes the row
C4_Witness ==
  /\ last.op = "cast_ray"
  /\ Len(last.cells) = max_steps
  /\ InGrid(maze, last.cells[max_steps])
  /\ Passable(SymAt(maze, last.cells[max_steps]))
  /\ \E i \in DOMAIN maze[1] : ~Passable(maze[1][i])
  /\ hit = Sentinel(player)

\* C5: cast_ray never stops on a ' ' or 'R' cell.  Every cell the ray enters before its
\* last one is an in-grid ' ' or 'R' cell, the cells form a 4-connected walk from the
\* viewer's cell, the ray ends on an in-grid ' ' or 'R' cell only when the step budget
\* is used up, and a hit that is not the sentinel carries the symbol of the last cell
\* entered, which is in the grid and neither ' ' nor 'R'
C5_RayPassesSpawnCells ==
  last.op = "cast_ray" =>
    LET n == Len(last.cells)
    IN /\ n >= 1
       /\ Adjacent4(ViewerCell, last.cells[1])
       /\ \A k \in 1..(n - 1) :
            /\ InGrid(maze, last.cells[k])
            /\ Passable(SymAt(maze, last.cells[k]))
            /\ Adjacent4(last.cells[k], last.cells[k + 1])
       /\ (InGrid(maze, last.cells[n]) /\ Passable(SymAt(maze, last.cells[n])))
            => (n = max_steps /\ hit = Sentinel(player))
       /\ hit # Sentinel(player) =>
            /\ InGrid(maze, last.cells[n])
            /\ ~Passable(SymAt(maze, last.cells[n]))
            /\ hit.impact = SymAt(maze, last.cells[n])

\* C5 witness: a ray that crossed an agent-spawn cell and went on to hit a wall
C5_Witness ==
  /\ last.op = "cast_ray"
  /\ hit # Sentinel(player)
  /\ \E k \in 1..(Len(last.cells) - 1) : SymAt(maze, last.cells[k]) = "R"

\* the rational q = <<numerator, denominator>> equals the integer v
RatEq(q, v) == q[1] = q[2] * v

\* the ray at angle 0 from the viewer's cell (i, j) meets wall cell (k, j) first
FirstWallRight(i, j, k) ==
  /\ ~Passable(SymAt(maze, <<k, j>>))
  /\ \A c \in (i + 1)..(k - 1) : Passable(SymAt(maze, <<c, j>>))

\* the ray along +Y or -Y from the viewer's cell (i, j) meets wall cell (i, k) first
FirstWallInColumn(i, j, k) ==
  /\ InGrid(maze, <<i, k>>)
  /\ ~Passable(SymAt(maze, <<i, k>>))
  /\ \A c \in ((IF k > j THEN j ELSE k) + 1)..((IF k > j THEN k ELSE j) - 1) :
       InGrid(maze, <<i, c>>) /\ Passable(SymAt(maze, <<i, c>>))

\* what C6 promises of the hit on wall cell c at distance d: side sd, distance d, and
\* the wall's symbol
AxisHit(sd, d, c) ==
  /\ hit.side = sd
  /\ RatEq(hit.distance, d)
  /\ hit.impact = SymAt(maze, c)

ViewerInOpenCell == InGrid(maze, ViewerCell) /\ Passable(SymAt(maze, ViewerCell))

AllCells(m) == UNION { { <<i, j>> : i \in 0..(Len(m[j + 1]) - 1) } : j \in 0..(Len(m) - 1) }

\* breadth-first layers: frontier holds the cells d steps from the start
RECURSIVE WalkDist(_, _, _, _, _)
WalkDist(m, frontier, seen, dst, d) ==
  IF dst \in frontier THEN d
  ELSE IF frontier = {} THEN -1
  ELSE LET nxt == { n \in AllCells(m) \ seen :
                      /\ Passable(SymAt(m, n))
                      /\ \E c \in frontier : Adjacent4(c, n) }
       IN WalkDist(m, nxt, seen \cup nxt, dst, d + 1)

\* length of the shortest 4-connected path from cell s to cell g whose cells after s
\* are all ' ' or 'R' cells of the grid; -1 when there is none
PathLen(m, s, g) == WalkDist(m, {s}, {s}, g, 0)

AgentCell(npc) == <<npc.x \div block_size, npc.y \div block_size>>

\* C7: line_of_sight is true exactly when every cell of the Bresenham traversal from the
\* agent's cell to the viewer's cell, both end cells included, is in the grid and holds
\* ' ' or 'R'; the traversal starts on the agent's cell, ends on the viewer's and moves
\* one cell (edge or corner) at a time; with a wall cell between the two in the same row
\* or column the result is false
C7_LineOfSightExact ==
  last.op = "line_of_sight" =>
    LET cs == bresenham_cells(npcs[1].x, npcs[1].y, player.x, player.y, block_size)
        s  == AgentCell(npcs[1])
        g  == ViewerCell
    IN /\ cs[1] = s /\ cs[Len(cs)] = g
       /\ \A k \in 1..(Len(cs) - 1) :
            /\ Abs(cs[k][1] - cs[k + 1][1]) <= 1
            /\ Abs(cs[k][2] - cs[k + 1][2]) <= 1
            /\ cs[k] # cs[k + 1]
       /\ last.ok = (\A k \in 1..Len(cs) :
                       InGrid(maze, cs[k]) /\ Passable(SymAt(maze, cs[k])))
       /\ (s[2] = g[2] /\ \E i \in s[1]..g[1] \cup g[1]..s[1] :
             ~(InGrid(maze, <<i, s[2]>>) /\ Passable(SymAt(maze, <<i, s[2]>>))))
            => ~last.ok
       /\ (s[1] = g[1] /\ \E j \in s[2]..g[2] \cup g[2]..s[2] :
             ~(InGrid(maze, <<s[1], j>>) /\ Passable(SymAt(maze, <<s[1], j>>))))
            => ~last.ok

\* C7 witness: agent and viewer in open cells of one row, a wall cell between them, and
\* line_of_sight has answered false
C7_Witness ==
  /\ last.op = "line_of_sight" /\ ~last.ok
  /\ InGrid(maze, AgentCell(npcs[1])) /\ Passable(SymAt(maze, AgentCell(npcs[1])))
  /\ ViewerInOpenCell
  /\ AgentCell(npcs[1])[2] = ViewerCell[2]
  /\ \E i \in (AgentCell(npcs[1])[1] + 1)..(ViewerCell[1] - 1) :
       ~Passable(SymAt(maze, <<i, ViewerCell[2]>>))

\* C8: when next_step_bfs returns a cell for agent cell S and viewer cell G, the
\* shortest walkable path from S to G has some length L >= 1 and the returned cell is
\* at distance exactly L - 1 from G
C8_BfsStepOnShortestPath ==
  (last.op = "next_step_bfs" /\ last.step.some) =>
    LET s == AgentCell(npcs[1])
        g == ViewerCell
        c == <<last.step.x \div block_size, last.step.y \div block_size>>
        L == PathLen(maze, s, g)
    IN /\ L >= 1
       /\ PathLen(maze, c, g) = L - 1

\* C8 witness: a path of at least three cells around a wall, and a step was returned
C8_Witness ==
  /\ last.op = "next_step_bfs" /\ last.step.some
  /\ PathLen(maze, AgentCell(npcs[1]), ViewerCell) >= 3
  /\ ~line_of_sight(maze, npcs[1].x, npcs[1].y, player.x, player.y, block_size)

\* no walkable path leads from the agent's cell to the viewer's cell
NoPath(npc) ==
  \/ ~InGrid(maze, AgentCell(npc))
  \/ ~InGrid(maze, ViewerCell)
  \/ ~Passable(SymAt(maze, ViewerCell))
  \/ PathLen(maze, AgentCell(npc), ViewerCell) = -1

\* C9: when line of sight is blocked and no path exists, next_step_bfs returns None and
\* update_npcs leaves that agent where it was
C9_NoPathHoldsPosition ==
  last.op = "update_npcs" =>
    \A i \in DOMAIN npcs :
      ( /\ ~line_of_sight(maze, last.before[i].x, last.before[i].y,
                          player.x, player.y, block_size)
        /\ NoPath(last.before[i]) )
      => /\ next_step_bfs(maze, last.before[i].x, last.before[i].y,
                          player.x, player.y, block_size) = None
         /\ npcs[i] = last.before[i]

\* C9 witness: agent and viewer stand in open cells of the grid that no walkable path
\* joins, more than one unit apart, and the agent has not moved
C9_Witness ==
  /\ last.op = "update_npcs"
  /\ InGrid(maze, AgentCell(last.before[1]))
  /\ Passable(SymAt(maze, AgentCell(last.before[1])))
  /\ ViewerInOpenCell
  /\ PathLen(maze, AgentCell(last.before[1]), ViewerCell) = -1
  /\ Abs(player.x - last.before[1].x) > 1
  /\ npcs = last.before

\* C10: update_npcs returns true exactly when some agent, where it stood before the
\* call, was within block_size / 4 of the viewer; and every agent, those after a touching
\* one included, has made its move
C10_TouchedIffSomeAgentNear ==
  last.op = "update_npcs" =>
    /\ touched = (\E i \in DOMAIN last.before :
                    16 * ( (player.x - last.before[i].x) * (player.x - last.before[i].x)
                         + (player.y - last.before[i].y) * (player.y - last.before[i].y) )
                      <= block_size * block_size)
    /\ Len(npcs) = Len(last.before)
    /\ \A i \in DOMAIN npcs :
         npcs[i] = npc_step(maze, last.before[i], player, block_size)

\* C10 witness: the first agent stood on the viewer, the call returned true, and the
\* second agent still moved in that call
C10_Witness ==
  /\ last.op = "update_npcs" /\ touched
  /\ Len(npcs) >= 2
  /\ last.before[1].x = player.x /\ last.before[1].y = player.y
  /\ npcs[2] # last.before[2]

(***************************************************************************)
(* Claims about the renderer, the game state and the minimap               *)
(***************************************************************************)
\* the distance and bearing render_world was given for the sprite of pixel p
ViewOf(p) == IF p.kind = "npc" THEN last.arg.nviews[p.id] ELSE last.arg.cviews[p.id]

\* the wall depth render_world compares the sprites of pixel column px with
DepthAt(px) == depth_buffer[px \div Max(last.arg.column_step, 1)]

\* C11: occlusion.  After render_world, no agent or collectible pixel lies in a column
\* px where the sprite's distance is greater than depth_buffer[px div column_step] - 1.
C11_OccludedColumnsStayEmpty ==
  last.op = "render_world" =>
    \A p \in drawn : ~(ViewOf(p).dist > DepthAt(p.px) - 1)

\* C11 witness: an agent drawn in one column and hidden in another column of the screen
\* that its box covers, where the wall is nearer than the agent plus the tolerance
C11_Witness ==
  /\ last.op = "render_world"
  /\ \E k \in DOMAIN npcs :
       LET v   == last.arg.nviews[k]
           box == sprite_box(v.dist, v.rel, 70, 1, 2, 3, 0)
       IN /\ \E p \in drawn : p.kind = "npc" /\ p.id = k
          /\ \E px \in 0..(FbWidth - 1) :
               /\ px >= box.sx - box.half /\ px <= box.sx + box.half
               /\ v.dist > DepthAt(px) - 1
               /\ ~\E p \in drawn : p.kind = "npc" /\ p.id = k /\ p.px = px

\* C12: a collectible whose collected flag is true is never drawn, whatever its
\* distance, bearing, texture and the depth buffer.
C12_CollectedNeverDrawn ==
  last.op = "render_world" =>
    \A k \in DOMAIN coins :
      coins[k].collected => ~\E p \in drawn : p.kind = "coin" /\ p.id = k

\* C12 witness: a gathered collectible in the field of view, nearer than every wall,
\* with an opaque texture: the agent at the same spot is drawn, the collectible is not
C12_Witness ==
  /\ last.op = "render_world"
  /\ \E k \in DOMAIN coins :
       /\ coins[k].collected
       /\ Abs(last.arg.cviews[k].rel) <= BearingSteps
       /\ \A c \in DOMAIN depth_buffer : last.arg.cviews[k].dist <= depth_buffer[c] - 1
       /\ last.arg.tex.coin = 255
       /\ ~\E p \in drawn : p.kind = "coin"
  /\ \E p \in drawn : p.kind = "npc"

\* the collectibles gathered so far
Gathered(cs) == { k \in DOMAIN cs : cs[k].collected }

\* the cells of a discovered grid that are true, as <<i, j>>
Revealed(disc) ==
  { c \in UNION { { <<i - 1, j - 1>> : i \in DOMAIN disc[j] } : j \in DOMAIN disc } :
      disc[c[2] + 1][c[1] + 1] }

\* the step is not a level restart
NoRestartStep == last'.op # "restart"

\* C13: the door-open condition is derived, never stored in the grid.  In every state of
\* the frame loop doors_open is true exactly when the number of gathered collectibles
\* is at least the number of collectibles of the level (in a level without
\* collectibles from the first frame on), and no step changes the maze.
C13_DoorsOpenDerived ==
  /\ [](doors_open(total_coins_collected, coins)
          <=> Cardinality(Gathered(coins)) >= Len(coins))
  /\ [][maze' = maze]_vars

\* C13 witness: a level with a collectible, rendered with every collectible gathered
\* and the doors open
C13_Witness ==
  /\ last.op = "render_minimap"
  /\ Len(coins) > 0
  /\ Gathered(coins) = DOMAIN coins
  /\ doors_open(total_coins_collected, coins)

\* C14: between level restarts a collected flag never goes back to false, the count
\* total_coins_collected never decreases, and doors_open stays true once it is.
C14_CollectedIsMonotonic ==
  [][NoRestartStep =>
       /\ DOMAIN coins' = DOMAIN coins
       /\ Gathered(coins) \subseteq Gathered(coins')
       /\ total_coins_collected' >= total_coins_collected
       /\ doors_open(total_coins_collected, coins)
            => doors_open(total_coins_collected', coins')]_vars

\* C14 witness: a frame after the one that gathered a collectible; the viewer has moved
\* out of reach and the collectible is still gathered
C14_Witness ==
  /\ last.op = "update_coins"
  /\ \E k \in DOMAIN coins :
       /\ last.arg[k].collected /\ coins[k].collected
       /\ ~coin_reach(coins[k], player, block_size)
  /\ total_coins_collected > 0

\* C15: fog-of-war is monotonic.  A discovered cell that is true stays true over every
\* step that is not a level restart.
C15_DiscoveredIsMonotonic ==
  [][NoRestartStep => Revealed(discovered) \subseteq Revealed(discovered')]_vars

\* C15 witness: after a frame, a cell is still discovered although the viewer has moved
\* away from it
C15_Witness ==
  /\ last.op = "render_minimap"
  /\ \E c \in Revealed(last.arg) :
       ~near_cell(cell_indices_from_pos(player.x, player.y, block_size), c[1], c[2])

\* C16 as claimed: an agent's marker is drawn on the minimap only if the cell the agent
\* occupies is discovered
C16_MarkersOnlyWhenDiscovered ==
  last.op = "render_minimap" =>
    \A p \in drawn :
      p.kind = "marker" =>
        cell_indices_from_pos(npcs[p.id].x, npcs[p.id].y, block_size)
          \in Revealed(discovered)

\* C16 witness: a frame in which the marker of an agent standing on an undiscovered
\* cell was drawn
C16_Witness ==
  /\ last.op = "render_minimap"
  /\ \E p \in drawn :
       /\ p.kind = "marker"
       /\ cell_indices_from_pos(npcs[p.id].x, npcs[p.id].y, block_size)
            \notin Revealed(discovered)

\* C19: a level restart restores the level-start state.  The step that runs it leaves
\* the viewer at the start position with the initial angle, the agents at their spawn
\* cells, every collectible uncollected, the count 0 and no cell discovered, and
\* leaves the maze as it was.
C19_RestartRestoresLevelStart ==
  [][last'.op = "restart" =>
       /\ maze' = maze
       /\ player' = PlayerStart(block_size)
       /\ player_a' = 0
       /\ \E sp \in NpcSpeeds : npcs' = load_npcs_from_maze(maze, block_size, sp)
       /\ coins' = load_coins_from_maze(maze, block_size)
       /\ Gathered(coins') = {}
       /\ total_coins_collected' = 0
       /\ DOMAIN discovered' = DOMAIN maze
       /\ \A j \in DOMAIN maze : DOMAIN discovered'[j] = DOMAIN maze[j]
       /\ Revealed(discovered') = {}]_vars

\* C19 witness: a restart from the game-over screen after the viewer had moved, an
\* agent had moved, a collectible was gathered and cells were discovered; all are reset
C19_Witness ==
  /\ last.op = "restart"
  /\ last.arg.screen = "game_over"
  /\ last.from # PlayerStart(block_size)
  /\ last.before # npcs
  /\ Gathered(last.arg.coins) # {}
  /\ Revealed(last.arg.discovered) # {}
  /\ player = PlayerStart(block_size)
  /\ Gathered(coins) = {}
  /\ total_coins_collected = 0
  /\ Revealed(discovered) = {}

\* every row index and every cell index of an index record addresses the grid
IndexesInGrid(m, r) ==
  /\ \A j \in r.rows : j >= 0 /\ j < Len(m)
  /\ \A c \in r.cells : InGrid(m, c)

\* C17: for every grid (empty, jagged, with empty rows) and every position (negative,
\* outside all rows) can_move_to, line_of_sight, next_step_bfs and cast_ray index only
\* rows and cells of the grid, whose shape the visited and parent tables share, and
\* return their defined result: can_move_to is false at a position outside a
\* non-empty grid (true on the empty grid), line_of_sight is false and next_step_bfs
\* is None when an end cell is outside the grid, and cast_ray returns the sentinel or
\* a blocking cell of the grid (the sentinel on the empty grid).
C17_NoIndexOutsideGrid ==
  LET a1 == npcs[1]
      rays == { cast_ray(maze, player, a, block_size) : a \in Angles }
  IN /\ \A p \in {player, [x |-> a1.x, y |-> a1.y]} :
          /\ IndexesInGrid(maze, can_move_to_indexes(maze, p.x, p.y, block_size))
          /\ Len(maze) = 0 => can_move_to(maze, p.x, p.y, block_size)
          /\ (/\ Len(maze) > 0
              /\ ~InGrid(maze, cell_indices_from_pos(p.x, p.y, block_size)))
               => ~can_move_to(maze, p.x, p.y, block_size)
     /\ IndexesInGrid(maze, line_of_sight_indexes(maze, a1.x, a1.y, player.x, player.y,
                                                  block_size))
     /\ IndexesInGrid(maze, next_step_bfs_indexes(maze, a1.x, a1.y, player.x, player.y,
                                                  block_size))
     /\ (\/ ~InGrid(maze, AgentCell(a1))
         \/ ~InGrid(maze, cell_indices_from_pos(player.x, player.y, block_size)))
          => /\ ~line_of_sight(maze, a1.x, a1.y, player.x, player.y, block_size)
             /\ next_step_bfs(maze, a1.x, a1.y, player.x, player.y, block_size) = None
     /\ \A a \in Angles : IndexesInGrid(maze, cast_ray_indexes(maze, player, a, block_size))
     /\ \A h \in rays :
          \/ h = Sentinel(player)
          \/ \E j \in DOMAIN maze : \E i \in DOMAIN maze[j] :
               h.impact = maze[j][i] /\ ~Passable(maze[j][i])
     /\ Len(maze) = 0 => rays = {Sentinel(player)}

\* C17 witness: on the jagged grid, whose third row is empty, next_step_bfs was asked
\* for a path from an agent inside the grid to a viewer outside it and returned None
C17_Witness ==
  /\ last.op = "next_step_bfs"
  /\ maze = JaggedMaze
  /\ InGrid(maze, AgentCell(npcs[1]))
  /\ ~InGrid(maze, cell_indices_from_pos(player.x, player.y, block_size))
  /\ player.x < 0
  /\ last.step = None

\* C20: whenever next_step_bfs returns Some(center), center is the centre of a cell that
\* is in the grid, holds ' ' or 'R' and shares an edge with the agent's cell (never a
\* diagonal neighbour, never the agent's own cell); with a wall cell directly between
\* agent and viewer the step is therefore a lateral cell, not the wall cell.
C20_FirstStepIsAdjacentWalkable ==
  (last.op = "next_step_bfs" /\ last.step.some) =>
    LET c == cell_indices_from_pos(last.step.x, last.step.y, block_size)
        s == AgentCell(npcs[1])
    IN /\ last.step.x = c[1] * block_size + block_size \div 2
       /\ last.step.y = c[2] * block_size + block_size \div 2
       /\ InGrid(maze, c)
       /\ Passable(SymAt(maze, c))
       /\ Adjacent4(c, s)

\* C20 witness: the pillar of PillarMaze stands directly between agent and viewer in
\* one row; the first step leaves that row
C20_Witness ==
  /\ last.op = "next_step_bfs"
  /\ last.step.some
  /\ maze = PillarMaze
  /\ LET s == AgentCell(npcs[1])
         g == cell_indices_from_pos(player.x, player.y, block_size)
         c == cell_indices_from_pos(last.step.x, last.step.y, block_size)
     IN /\ s[2] = g[2] /\ g[1] = s[1] + 2
        /\ ~Passable(SymAt(maze, <<s[1] + 1, s[2]>>))
        /\ c[1] = s[1] /\ c[2] # s[2]

\* the texel a nearest-texel sampler reads for the latest call
SourceTexel ==
  IF last.op = "sample_coin"
  THEN texel(image, image.w \div 12, image.h, last.arg[3] * (image.w \div 12),
             fract_abs(last.arg[1]), fract_abs(last.arg[2]))
  ELSE texel(image, image.w, image.h, 0, fract_abs(last.arg[1]), fract_abs(last.arg[2]))

\* C18 as claimed: wall, sky and floor sampling return a fully opaque colour for a
\* fully transparent (alpha 0) source pixel, whereas agent-sprite and collectible
\* sampling return the source pixel's alpha unchanged
C18_TransparentSourceIsOpaque ==
  /\ (/\ last.op = "sample"
      /\ loaded(image)
      /\ \A k \in DOMAIN image.data : image.data[k].a = 0)
       => sampled.a = 255
  /\ (/\ last.op \in {"sample_sky", "sample_floor"}
      /\ loaded(image)
      /\ SourceTexel # NoColor
      /\ SourceTexel.a = 0)
       => sampled.a = 255
  /\ (/\ last.op \in {"sample_npc", "sample_coin"}
      /\ loaded(image)
      /\ SourceTexel # NoColor)
       => sampled.a = SourceTexel.a

\* the part of C18 the samplers do satisfy: wall sampling of transparent pixels is
\* opaque, agent-sprite and collectible sampling keep the alpha
C18_WallOpaqueSpritesTrueAlpha ==
  /\ (/\ last.op = "sample"
      /\ loaded(image)
      /\ \A k \in DOMAIN image.data : image.data[k].a = 0)
       => sampled.a = 255
  /\ (/\ last.op \in {"sample_npc", "sample_coin"}
      /\ loaded(image)
      /\ SourceTexel # NoColor)
       => sampled.a = SourceTexel.a

\* C18 witness: the sky sampler read a fully transparent source pixel and returned
\* alpha 0
C18_Witness ==
  /\ last.op = "sample_sky"
  /\ loaded(image)
  /\ SourceTexel # NoColor
  /\ SourceTexel.a = 0
  /\ sampled.a = 0

\* the least n with n * d >= w
CeilDiv(w, d) == CHOOSE n \in 0..w : n * d >= w /\ \A k \in 0..(n - 1) : k * d < w

\* C21: render_world casts numColumns = ceil(framebufferWidth / max(columnStep, 1))
\* rays and the wall pass writes the depth-buffer entry of every column index in
\* [0, numColumns) before the sprites are drawn; for every pixel column px in
\* [0, framebufferWidth) the index px div columnStep is below numColumns, and the sprite
\* pass reads the depth buffer only at indexes it holds.
C21_DepthBufferCoversColumns ==
  last.op \in {"render_world_walls", "render_world"} =>
    LET step == Max(last.arg.column_step, 1)
        n    == CeilDiv(FbWidth, step)
    IN /\ num_rays(step) = n
       /\ DOMAIN depth_buffer = 0..(n - 1)
       /\ \A i \in 0..(n - 1) : depth_buffer[i] # INFINITY
       /\ \A px \in 0..(FbWidth - 1) : px \div step < n
       /\ last.op = "render_world" => last.arg.reads \subseteq DOMAIN depth_buffer

\* C21 witness: the width is not a multiple of column_step, so the last ray covers
\* fewer pixel columns, and a sprite reads the last depth-buffer entry
C21_Witness ==
  /\ last.op = "render_world"
  /\ last.arg.column_step > 1
  /\ FbWidth % last.arg.column_step # 0
  /\ (FbWidth - 1) \div last.arg.column_step \in last.arg.reads

\* the wall-pass pixels at (px, y)
WallWrites(px, y) == { p \in last.arg.walls : p.px = px /\ p.y = y }

\* C22: for every sampled column 0 <= top <= bottom <= framebufferHeight - 1; the sky
\* band [0, top), the wall band [top, bottom] and the floor band
\* [bottom + 1, framebufferHeight - 1] partition the column, each row of each of its
\* pixel columns being written by exactly one band, the one it lies in; no replicated
\* pixel lies at x >= framebufferWidth.
C22_BandsPartitionColumn ==
  last.op = "render_world_walls" =>
    LET step == Max(last.arg.column_step, 1)
    IN /\ \A i \in DOMAIN last.arg.spans :
            LET s == last.arg.spans[i]
            IN /\ 0 <= s.top /\ s.top <= s.bottom /\ s.bottom <= FbHeight - 1
               /\ \A px \in (i * step)..(Min(i * step + step, FbWidth) - 1) :
                    \A y \in 0..(FbHeight - 1) :
                      /\ Cardinality(WallWrites(px, y)) = 1
                      /\ \A p \in WallWrites(px, y) :
                           /\ p.col = i
                           /\ p.band = IF y < s.top THEN "sky"
                                       ELSE IF y <= s.bottom THEN "wall" ELSE "floor"
       /\ \A p \in last.arg.walls :
            p.px >= 0 /\ p.px < FbWidth /\ p.y >= 0 /\ p.y < FbHeight

\* C22 witness: a far wall whose column shows all three bands, replicated over a last
\* ray that is cut at the right edge of the framebuffer, next to a near wall that
\* fills its column
C22_Witness ==
  /\ last.op = "render_world_walls"
  /\ last.arg.column_step > 1
  /\ FbWidth % last.arg.column_step # 0
  /\ \E p, q, r \in last.arg.walls :
       /\ p.px = FbWidth - 1 /\ q.px = p.px /\ r.px = p.px
       /\ p.band = "sky" /\ q.band = "wall" /\ r.band = "floor"
  /\ \E i \in DOMAIN last.arg.spans :
       last.arg.spans[i] = [top |-> 0, bottom |-> FbHeight - 1]

\* the orders in which n agents can be processed
Orders(n) == { f \in [1..n -> 1..n] : \A i, j \in 1..n : f[i] = f[j] => i = j }

\* C23: per-agent navigation is order-independent.  After update_npcs, every agent is
\* where an update of that agent alone would have put it, updating the agents in any
\* other order gives the same positions and the same touched result, and the viewer
\* and the grid are as before the call.
C23_AgentsUpdateIndependently ==
  last.op = "update_npcs" =>
    /\ player = last.from
    /\ \E s \in LevelSetups : maze = s[1] /\ block_size = s[2]
    /\ Len(npcs) = Len(last.before)
    /\ \A k \in DOMAIN npcs :
         npcs[k] = update_npcs(<<last.before[k]>>, player, maze, block_size).npcs[1]
    /\ touched = \E k \in DOMAIN npcs :
                   update_npcs(<<last.before[k]>>, player, maze, block_size).touched
    /\ \A f \in Orders(Len(npcs)) :
         LET r == update_npcs([k \in DOMAIN npcs |-> last.before[f[k]]], player, maze,
                              block_size)
         IN /\ \A k \in DOMAIN npcs : r.npcs[k] = npcs[f[k]]
            /\ r.touched = touched

\* C23 witness: two agents, one of which touches the viewer while the other moves
C23_Witness ==
  /\ last.op = "update_npcs"
  /\ Len(npcs) = 2
  /\ touched
  /\ \E j, k \in DOMAIN npcs :
       /\ j # k
       /\ npc_touches(last.before[j], player, block_size)
       /\ ~npc_touches(last.before[k], player, block_size)
       /\ npcs[k] # last.before[k]

(***************************************************************************)
(* Claims about the menu, the audio manager and the life of main           *)
(***************************************************************************)
\* the selection after the Down and then the Up of one frame
MenuStep(sel, down, up, keys) ==
  LET d == IF "Down" \in keys THEN down[sel] ELSE sel
  IN IF "Up" \in keys THEN up[d] ELSE d

\* C24: in run_menu main_selection stays in {0, 1} and level_selection in {1, 2, 3};
\* Down and Up wrap around (main 0 <-> 1; level 3 -> 1 on Down, 1 -> 3 on Up, each key
\* applied in the order the frame reads them); the keys of a frame handled in one menu
\* state leave the selection of the other state as it was.
C24_SelectionsStayInRange ==
  /\ menu.main_selection \in {0, 1}
  /\ menu.level_selection \in {1, 2, 3}
  /\ (last.op = "run_menu" /\ ~last.arg.close /\ last.arg.menu.menu_state = "Main") =>
       /\ menu.level_selection = last.arg.menu.level_selection
       /\ menu.main_selection =
            MenuStep(last.arg.menu.main_selection, [s \in {0, 1} |-> 1 - s],
                     [s \in {0, 1} |-> 1 - s], last.arg.keys)
  /\ (last.op = "run_menu" /\ ~last.arg.close /\ last.arg.menu.menu_state = "LevelSelect") =>
       /\ menu.main_selection = last.arg.menu.main_selection
       /\ menu.level_selection =
            MenuStep(last.arg.menu.level_selection, <<2, 3, 1>>, <<3, 1, 2>>, last.arg.keys)
  /\ (last.op = "run_menu" /\ last.arg.close) => menu = last.arg.menu

\* Down pressed alone on level 3 wrapped to level 1
C24_Witness ==
  /\ last.op = "run_menu"
  /\ ~last.arg.close
  /\ last.arg.menu.menu_state = "LevelSelect"
  /\ last.arg.menu.level_selection = 3
  /\ last.arg.keys = {"Down"}
  /\ menu.level_selection = 1

\* C25: run_menu returns StartLevel(n) only from LevelSelect on Enter, with n the
\* level_selection of that moment, in 1..3; LevelSelect is entered only from Main by
\* Enter with selection 0 ('Jugar'); Escape in LevelSelect (no Enter, no Q in the same
\* frame) leads back to Main and the loop goes on; Quit is returned exactly when the
\* window is closed, on Q (in LevelSelect: unless Enter returned first) and on Enter in
\* Main with selection 1 ('Salir').
C25_MenuReturns ==
  last.op = "run_menu" =>
    LET was == last.arg.menu
        keys == last.arg.keys
        close == last.arg.close
        action == last.arg.action
    IN /\ action.kind = "StartLevel" =>
            /\ ~close /\ was.menu_state = "LevelSelect" /\ "Enter" \in keys
            /\ action.level = menu.level_selection
            /\ action.level \in {1, 2, 3}
       /\ (was.menu_state = "Main" /\ menu.menu_state = "LevelSelect") =>
            ~close /\ "Enter" \in keys /\ menu.main_selection = 0
       /\ (~close /\ was.menu_state = "LevelSelect" /\ "Escape" \in keys
             /\ keys \cap {"Enter", "Q"} = {}) =>
            menu.menu_state = "Main" /\ action.kind = "none"
       /\ (menu.menu_state = "Main" /\ was.menu_state = "LevelSelect") =>
            ~close /\ "Escape" \in keys
       /\ action.kind = "Quit" <=>
            \/ close
            \/ "Q" \in keys /\ ~(was.menu_state = "LevelSelect" /\ "Enter" \in keys)
            \/ was.menu_state = "Main" /\ "Enter" \in keys /\ menu.main_selection = 1
       /\ (phase = "returned") <=> (action.kind # "none")

\* Up and Enter in one frame on level 1: StartLevel(3) is returned
C25_Witness ==
  /\ last.op = "run_menu"
  /\ last.arg.menu.level_selection = 1
  /\ last.arg.keys = {"Up", "Enter"}
  /\ last.arg.action = StartLevelAction(3)
  /\ phase = "returned"

\* C26: under any sequence of init, play, stop_unload and cleanup the audio device is
\* opened and closed in strict alternation (opened only by a call that found
\* initialized false, closed only by one that found it true, and open exactly while
\* initialized holds); no music stream is stopped and unloaded more than once; after
\* cleanup initialized is false and music and coin_sound are None.
C26_DeviceAndStreamsReleasedOnce ==
  /\ ~device.misuse
  /\ device.open = audio.initialized
  /\ (last.op \in {"audio_init", "audio_play", "audio_stop_unload", "audio_cleanup"}) =>
       /\ (device.open /\ ~last.arg.device.open) =>
            (last.op = "audio_init" /\ ~last.arg.audio.initialized)
       /\ (~device.open /\ last.arg.device.open) =>
            (last.op = "audio_cleanup" /\ last.arg.audio.initialized)
  /\ \A s \in DOMAIN device.unloads : device.unloads[s] <= 1
  /\ audio.music.some => (device.unloads[audio.music.id] = 0)
  /\ (last.op = "audio_cleanup") => (audio = AudioManager_new)

\* a second cleanup of a manager that was initialized again and holds the second
\* stream it loaded, the first one having been unloaded by stop_unload
C26_Witness ==
  /\ last.op = "audio_cleanup"
  /\ last.arg.audio.initialized
  /\ last.arg.audio.music = SomeStream(2)
  /\ last.arg.audio.coin_sound.some
  /\ device.unloads[1] = 1
  /\ device.unloads[2] = 1
  /\ ~device.open

\* C27: on every path by which main returns after audio.init(), AudioManager::cleanup
\* was called before the return: the step that made main return called it, and it left
\* the device closed and the manager empty.
C27_CleanupBeforeReturn ==
  (phase = "returned") =>
    /\ last.arg.cleanup
    /\ ~device.open
    /\ audio = AudioManager_new

\* main returned because the window was closed during a frame of the game
C27_Witness ==
  /\ phase = "returned"
  /\ last.op = "frame"
  /\ last.arg.from = "play"

\* the returns through the menu and through Q on either screen do call cleanup
C27_OtherReturnsCleanUp ==
  (phase = "returned" /\ last.op # "frame") =>
    /\ last.arg.cleanup
    /\ ~device.open
    /\ audio = AudioManager_new

\* some agent stands within block_size / 4 of the viewer
SomeAgentTouches == \E i \in DOMAIN npcs : npc_touches(npcs[i], player, block_size)

\* C28: the game-over screen is entered only in a state where some agent is within the
\* touch threshold (block_size / 4) of the viewer's current position; in particular,
\* when the viewer escaped and was touched in the same frame, the restart from the
\* victory screen, which puts the viewer and the agents back, does not lead into the
\* game-over screen.
C28_GameOverOnlyWhenTouching ==
  /\ (phase = "game_over") => SomeAgentTouches
  /\ (last.op = "victory") => (phase # "game_over")

\* the viewer escaped and was touched in the same frame, Enter was pressed on the
\* victory screen, and the game-over screen follows with everyone back at the start
C28_Witness ==
  /\ last.op = "victory"
  /\ player_escaped /\ touched
  /\ phase = "game_over"
  /\ player = PlayerStart(block_size)
  /\ npcs = load_npcs_from_maze(maze, block_size, npcs[1].speed)
  /\ ~SomeAgentTouches

\* without a victory screen in between, the game-over screen is entered by a frame
\* whose update_npcs found an agent within the threshold, and that agent still is
C28_GameOverAfterTouch ==
  (phase = "game_over" /\ last.op = "frame") =>
    (touched /\ ~player_escaped /\ SomeAgentTouches)

\* the viewer's cell can be walked to from the cell of agent i
CanReachViewer(i) ==
  /\ i \in DOMAIN npcs
  /\ PathLen(maze, AgentCell(npcs[i]), ViewerCell) >= 0

\* agent i is in the viewer's cell and the call returned true
InViewerCell(i) == i \in DOMAIN npcs /\ touched /\ AgentCell(npcs[i]) = ViewerCell

\* agent i is within the touch threshold of the viewer and the call returned true
AtViewer(i) ==
  i \in DOMAIN npcs /\ touched /\ npc_touches(npcs[i], player, block_size)

BorderOutside(width, height) ==
  { q \in border_asked(maze, 12, 12) : q[1] >= width \/ q[2] >= height }

\* C30: no call of render_world, render_minimap or of the menu drawing writes a pixel
\* outside the width x height buffer: every pixel written has x < width and y < height.
C30_NoWriteOutsideBuffer ==
  \A q \in drawn :
    q.px >= 0 /\ q.y >= 0 /\ q.px < last.arg.width /\ q.y < last.arg.height

\* render_minimap asked for border pixels past the buffer and wrote the others
C30_Witness ==
  /\ last.op = "render_minimap"
  /\ BorderOutside(last.arg.width, last.arg.height) # {}
  /\ \E q \in drawn : q.kind = "border"
====
